---- MODULE Spec2Model ----
(***************************************************************************)
(* Nextfish: the Shashin MCTS search tree (MCTSStack, MCTSNode, MCTSTree)  *)
(* and the ShashinManager that classifies a position and gates the tree,  *)
(* modelled from src/src/nextfish_strategy.cpp and the declarations of    *)
(* src/nextfish-dev/Stockfish-master/src/shashin.h.                        *)
(*                                                                         *)
(* Numbers.  The code computes scores in double precision.  The model     *)
(* keeps every real quantity in thousandths (ONE = 1.0): the value sum of *)
(* a node, a prior, a selection score.  Square roots are integer square   *)
(* roots of the scaled argument and the natural logarithm is a table in   *)
(* thousandths.  int(1.8 * sqrt(v)) is computed exactly, as               *)
(* floor(sqrt(324 * v / 100)).                                             *)
(*                                                                         *)
(* The board.  Position, MoveList<LEGAL> and Eval::evaluate belong to the *)
(* engine around this code.  A position is a root position (a number of   *)
(* Positions) with the sequence of moves made on it since; the legal      *)
(* moves, the move attributes the prior reads, the static evaluation and  *)
(* the signals the detectors read are fixed functions of the position.    *)
(***************************************************************************)
EXTENDS Integers, Sequences, FiniteSets, TLC

(***************************************************************************)
(* Bounds of the model.                                                    *)
(***************************************************************************)
\* the largest iteration count handed to MCTSTree / runMCTSSearch
MaxIter == 11
\* how many times search is run on the same position in one behaviour
MaxRuns == 2
\* the workers that run backpropagate at the same time
NumWorkers == 2

(***************************************************************************)
(* Program constants.                                                      *)
(***************************************************************************)
\* 1.0 in thousandths
ONE == 1000
\* Move::none()
NoMove == 0
\* nullptr of MCTSNode*
NullNode == 0
\* the root is the first node of the arena
Root == 1
\* MAX_PLY of the engine, the capacity of MCTSStack
MAX_PLY == 246
\* the default of ShashinManager::config.mctsExploration, 1.414
DefaultExploration == 1414
\* the default of ShashinManager::config.mctsIterations
DefaultIterations == 1000
\* the upper end of std::clamp(iterations, 1, 300)
MaxClamp == 300

Styles == {"HIGH_TAL", "TAL", "CAPABLANCA", "PETROSIAN", "HIGH_PETROSIAN", "UNKNOWN_STYLE"}

Min(a, b) == IF a < b THEN a ELSE b
Max(a, b) == IF a > b THEN a ELSE b

RECURSIVE SqrtIter(_, _, _)
SqrtIter(x, lo, hi) ==
    IF lo >= hi THEN lo
    ELSE LET mid == (lo + hi + 1) \div 2
         IN  IF mid * mid <= x THEN SqrtIter(x, mid, hi) ELSE SqrtIter(x, lo, mid - 1)

\* floor(sqrt(x)) for x >= 0
ISqrt(x) == SqrtIter(x, 0, Min(x, 46340))

\* std::log(n) in thousandths, n = 1 .. 40
LnTable ==
    << 0, 693, 1099, 1386, 1609, 1792, 1946, 2079, 2197, 2303,
       2398, 2485, 2565, 2639, 2708, 2773, 2833, 2890, 2944, 2996,
       3045, 3091, 3135, 3178, 3219, 3258, 3296, 3332, 3367, 3401,
       3434, 3466, 3497, 3526, 3555, 3584, 3611, 3638, 3664, 3689 >>

Ln(n) == LnTable[n]

RECURSIVE SumSeq(_)
SumSeq(s) == IF s = << >> THEN 0 ELSE s[1] + SumSeq(Tail(s))

(***************************************************************************)
(* The engine around the tree: positions.                                  *)
(***************************************************************************)
\* The root positions a caller may hand over.  legal: the number of legal
\* moves (the moves 1 .. legal, in enumeration order); the booleans are what
\* the detectors of ShashinManager find on the position; pieces is
\* pos.count<ALL_PIECES>(); fortress is what isFortress finds; white: the side
\* to move is WHITE.
PositionTable ==
    << [legal |-> 0,  stmExp |-> FALSE, oppExp |-> FALSE, sac |-> FALSE, danger |-> FALSE,
        promo |-> FALSE, pieces |-> 5,  fortress |-> FALSE, white |-> TRUE],
       [legal |-> 1,  stmExp |-> TRUE,  oppExp |-> FALSE, sac |-> FALSE, danger |-> TRUE,
        promo |-> FALSE, pieces |-> 20, fortress |-> FALSE, white |-> FALSE],
       [legal |-> 2,  stmExp |-> FALSE, oppExp |-> FALSE, sac |-> FALSE, danger |-> FALSE,
        promo |-> TRUE,  pieces |-> 8,  fortress |-> TRUE,  white |-> TRUE],
       [legal |-> 3,  stmExp |-> FALSE, oppExp |-> TRUE,  sac |-> FALSE, danger |-> FALSE,
        promo |-> FALSE, pieces |-> 16, fortress |-> FALSE, white |-> FALSE],
       [legal |-> 15, stmExp |-> TRUE,  oppExp |-> TRUE,  sac |-> FALSE, danger |-> TRUE,
        promo |-> FALSE, pieces |-> 24, fortress |-> FALSE, white |-> TRUE],
       [legal |-> 16, stmExp |-> FALSE, oppExp |-> FALSE, sac |-> TRUE,  danger |-> FALSE,
        promo |-> FALSE, pieces |-> 30, fortress |-> FALSE, white |-> FALSE],
       [legal |-> 20, stmExp |-> FALSE, oppExp |-> FALSE, sac |-> FALSE, danger |-> FALSE,
        promo |-> FALSE, pieces |-> 32, fortress |-> FALSE, white |-> TRUE],
       [legal |-> 14, stmExp |-> TRUE,  oppExp |-> TRUE,  sac |-> FALSE, danger |-> TRUE,
        promo |-> FALSE, pieces |-> 26, fortress |-> FALSE, white |-> FALSE] >>

Positions == 1 .. Len(PositionTable)

\* the piece types: pawn, knight, bishop, rook, queen, king
MaxPieceType == 6

\* the replies that exist only below the root: no root position has them
DeepMoveA == 21
DeepMoveB == 22

\* MoveList<LEGAL>(pos): the legal moves of root position p after the moves of
\* path, in enumeration order.  What follows a move depends on the move:
\* a mate (no reply), one forced reply, or two or three replies.
LegalMoves(p, path) ==
    IF path = << >> THEN [k \in 1 .. PositionTable[p].legal |-> k]
    ELSE LET m == path[Len(path)]
             c == (m \div 4 + m + p) % 4
         IN  CASE c = 0 -> << >>
               [] c = 1 -> << DeepMoveA >>
               [] c = 2 -> << 1, DeepMoveB, 2 >>
               [] OTHER -> << DeepMoveA, 3 >>

\* pos.side_to_move(): TRUE for WHITE
SideToMove(p, path) == (PositionTable[p].white) = (Len(path) % 2 = 0)

\* PieceValue[] of the engine, indexed by the piece type 1 .. 6 (pawn .. king)
PieceValue == << 208, 781, 825, 1276, 2538, 0 >>

\* What calculateMovePrior reads of a move: capture_stage, the captured piece
\* type (0 for NO_PIECE), the moved piece type, gives_check, PROMOTION.
MoveAttr(p, path, m) ==
    LET k == (m + 2 * p + Len(path)) % 8
    IN  [capture  |-> k \in {1, 2, 3, 5},
         captured |-> CASE k = 1 -> 5 [] k = 2 -> 1 [] k = 3 -> 0 [] k = 5 -> 2 [] OTHER -> 0,
         mover    |-> CASE k = 1 -> 1 [] k = 2 -> 5 [] k = 3 -> 1 [] k = 5 -> 2 [] OTHER -> 3,
         check    |-> k \in {2, 6},
         promo    |-> k = 7]

\* Eval::evaluate(networks, pos, ...): a fixed value of the position for each
\* network, in centipawns
EvalValues == << -400, -100, 0, 100, 400 >>

Evaluate(nets, p, path) == EvalValues[((p + nets + 3 * SumSeq(path) + Len(path)) % 5) + 1]

\* 1.0 / (1.0 + std::exp(-v / 400.0)) in thousandths, on the values of Evaluate
Sigmoid(v) ==
    CASE v = -400 -> 269
      [] v = -100 -> 438
      [] v = 0    -> 500
      [] v = 100  -> 562
      [] v = 400  -> 731

(***************************************************************************)
(* State.                                                                  *)
(***************************************************************************)
VARIABLES
    \* ShashinManager
    state,                \* RootShashinState: staticState and dynamicDerived
    currentStyle,         \* ShashinManager::currentStyle
    config,               \* useMCTS, mctsIterations, mctsExploration
    lastStatic,           \* history: the position of the latest calls of setStaticState
                          \* and how many of them came in a row (capped at two)
    \* the call in progress
    pc,                   \* where the call stands: "idle", "loop", "select", "expand",
                          \* "simulate", "backprop", "clear", "done"
    caller,               \* "none", "tree" (MCTSTree::search called directly) or
                          \* "manager" (through ShashinManager::runMCTSSearch)
    rootPos,              \* the root position of the board handed to the call (0: none)
    board,                \* the moves made on that board since the call began
    nets,                 \* the evaluator networks handed to the call
    \* MCTSTree
    tree,                 \* the arena of MCTSNode, the root first; << >> when no tree exists
    maxIterations,
    explorationConstant,
    style,
    rng,                  \* the seed of the tree's std::mt19937
    \* locals of MCTSTree::search
    it,                   \* the loop counter i
    stack,                \* MCTSStack: the moves pushed, depth = Len(stack)
    node,                 \* the node select stands on, then `selected`, then `expanded`
    score,                \* the score simulateNNUE returned
    result,               \* what the call returned and wrote through its out pointers
    \* history, for stating properties
    runNo,                \* how many searches were run on this position, this one included
    firstRun,             \* the trees of the first run at each loop head, and its result
    nodesCreated,         \* MCTSNode constructions of the current call
    bpLeaf,               \* per node: backpropagations begun at it while it had no child
    bpInner,              \* per node: backpropagations begun at it while it had children
    \* workers that run backpropagate on one tree at the same time
    workers,              \* per worker: where it stands in backpropagate, its node, its
                          \* score, the totalScore it loaded; << >> when there is none
    \* a function called on its own
    probe                 \* its name, its arguments and what it returned; << >> when
                          \* none is called

managerVars == << state, currentStyle, config, lastStatic >>
treeVars    == << tree, maxIterations, explorationConstant, style, rng >>
callVars    == << pc, caller, rootPos, board, nets, it, stack, node, score, result >>
histVars    == << runNo, firstRun, nodesCreated, bpLeaf, bpInner >>
vars        == << managerVars, treeVars, callVars, histVars, workers, probe >>

(***************************************************************************)
(* MCTSStack.                                                              *)
(***************************************************************************)
\* Position::do_move / undo_move on the board
DoMove(bd, m) == Append(bd, m)
UndoMove(bd, m) == SubSeq(bd, 1, Len(bd) - 1)

\* MCTSStack::push: sb is the stack with the board it acts on
Push(sb, m) ==
    IF Len(sb.stack) < MAX_PLY - 1
    THEN [stack |-> Append(sb.stack, m), board |-> DoMove(sb.board, m)]
    ELSE sb

\* a plausible slip: pop lowers the depth and leaves the move on the board
Pop_NoUndo(sb) ==
    IF Len(sb.stack) > 0
    THEN [stack |-> SubSeq(sb.stack, 1, Len(sb.stack) - 1), board |-> sb.board]
    ELSE sb

\* MCTSStack::pop
Pop(sb) ==
    IF Len(sb.stack) > 0
    THEN [stack |-> SubSeq(sb.stack, 1, Len(sb.stack) - 1),
          board |-> UndoMove(sb.board, sb.stack[Len(sb.stack)])]
    ELSE sb

\* MCTSStack::clear
RECURSIVE Clear(_)
Clear(sb) == IF Len(sb.stack) > 0 THEN Clear(Pop(sb)) ELSE sb

(***************************************************************************)
(* MCTSNode.                                                               *)
(***************************************************************************)
\* a plausible slip: the constructor stores one visit
NewNode_Visited(m, par, movePrior) ==
    [move |-> m, parent |-> par, children |-> << >>, visits |-> 1, totalScore |-> 0,
     priorScore |-> movePrior, isExpanded |-> FALSE, isTerminal |-> FALSE]

\* MCTSNode::MCTSNode
NewNode(m, par, movePrior) ==
    [move |-> m, parent |-> par, children |-> << >>, visits |-> 0, totalScore |-> 0,
     priorScore |-> movePrior, isExpanded |-> FALSE, isTerminal |-> FALSE]

\* MCTSNode::uctScore of node c of tree t
UctScore(t, c, exploration) ==
    LET par == t[c].parent
        parentVisits == IF par # NullNode THEN Max(1, t[par].visits) ELSE 1
        nodeVisits == t[c].visits
        \* exploration * (0.65 + 0.85 / (1 + parentVisits / 64))
        dynamicExploration == (exploration * (650 + 54400 \div (64 + parentVisits))) \div ONE
    IN  IF nodeVisits = 0
        THEN t[c].priorScore
             + (dynamicExploration * ISqrt(Ln(parentVisits + 1) * ONE)) \div ONE
        ELSE LET exploitation == t[c].totalScore \div nodeVisits
                 \* sqrt(2 / (1 + nodeVisits / 10))
                 progressiveFactor == ISqrt(20000000 \div (10 + nodeVisits))
                 exploration2 ==
                     (((dynamicExploration * progressiveFactor) \div ONE)
                        * ISqrt((Ln(parentVisits + 1) * ONE) \div nodeVisits)) \div ONE
                 priorBonus == (t[c].priorScore * Max(50, 300 - nodeVisits * 10)) \div ONE
             IN  exploitation + exploration2 + priorBonus

\* a plausible slip: a later child with an equal score replaces the best
\* (>= for >)
RECURSIVE BestChildFrom_LastOnTies(_, _, _, _, _, _)
BestChildFrom_LastOnTies(t, n, exploration, k, best, bestScore) ==
    IF k > Len(t[n].children) THEN best
    ELSE LET c == t[n].children[k]
             s == UctScore(t, c, exploration)
         IN  IF best = NullNode \/ s >= bestScore
             THEN BestChildFrom_LastOnTies(t, n, exploration, k + 1, c, s)
             ELSE BestChildFrom_LastOnTies(t, n, exploration, k + 1, best, bestScore)

\* the loop of MCTSNode::bestChild over the children from the k-th on:
\* a later child replaces the best only with a strictly greater score
RECURSIVE BestChildFrom(_, _, _, _, _, _)
BestChildFrom(t, n, exploration, k, best, bestScore) ==
    IF k > Len(t[n].children) THEN best
    ELSE LET c == t[n].children[k]
             s == UctScore(t, c, exploration)
         IN  IF best = NullNode \/ s > bestScore
             THEN BestChildFrom(t, n, exploration, k + 1, c, s)
             ELSE BestChildFrom(t, n, exploration, k + 1, best, bestScore)

\* a plausible slip: the child is drawn with the tree's generator
BestChild_Random(t, n, exploration) ==
    IF Len(t[n].children) = 0 THEN NullNode
    ELSE t[n].children[(rng % Len(t[n].children)) + 1]

\* MCTSNode::bestChild (bestScore starts at -infinity: the first child always wins it)
BestChild(t, n, exploration) == BestChildFrom(t, n, exploration, 1, NullNode, 0)

\* MCTSNode::isFullyExpanded
IsFullyExpanded(t, n, legalMoveCount) == Len(t[n].children) >= legalMoveCount

\* MCTSNode::addChild: the tree with the new child of n appended
AddChild(t, n, m, prior) ==
    LET withChild == Append(t, NewNode(m, n, prior))
    IN  [withChild EXCEPT ![n].children = Append(@, Len(t) + 1)]

(***************************************************************************)
(* MCTSTree: the helpers.                                                  *)
(***************************************************************************)
\* the switch of MCTSTree::MCTSTree: the exploration constant of a style
StyleExploration(st, exploration) ==
    CASE st = "HIGH_TAL"       -> 2400
      [] st = "TAL"            -> 2000
      [] st = "CAPABLANCA"     -> 1600
      [] st = "PETROSIAN"      -> 1300
      [] st = "HIGH_PETROSIAN" -> 1100
      [] OTHER                 -> exploration

\* a plausible slip: the prior is returned without the cap
PriorOf_NoCap(a) ==
    LET val == IF a.capture /\ a.captured # 0
               THEN PieceValue[a.captured] - PieceValue[a.mover] \div 10
               ELSE -1
        captureBonus == IF a.capture /\ a.captured # 0
                        THEN IF val > 0 THEN 150 + Min(2 * val, 200)
                             ELSE IF val >= 0 THEN 100 ELSE 0
                        ELSE 0
    IN  500 + captureBonus + (IF a.check THEN 120 ELSE 0) + (IF a.promo THEN 150 ELSE 0)

\* the body of MCTSTree::calculateMovePrior on what it reads of the move, in
\* thousandths
PriorOf(a) ==
    LET val == IF a.capture /\ a.captured # 0
               THEN PieceValue[a.captured] - PieceValue[a.mover] \div 10
               ELSE -1
        captureBonus == IF a.capture /\ a.captured # 0
                        THEN IF val > 0 THEN 150 + Min(2 * val, 200)
                             ELSE IF val >= 0 THEN 100 ELSE 0
                        ELSE 0
        prior == 500 + captureBonus + (IF a.check THEN 120 ELSE 0) + (IF a.promo THEN 150 ELSE 0)
    IN  Min(prior, 950)

\* MCTSTree::calculateMovePrior on move m of root position p after path
CalculateMovePrior(p, path, m) == PriorOf(MoveAttr(p, path, m))

\* MCTSTree::getPathFromRoot
RECURSIVE GetPathFromRoot(_, _)
GetPathFromRoot(t, n) ==
    IF n = NullNode \/ t[n].parent = NullNode THEN << >>
    ELSE Append(GetPathFromRoot(t, t[n].parent), t[n].move)

\* the number of plies between the root and node n
Depth(t, n) == Len(GetPathFromRoot(t, n))

\* int(1.8 * std::sqrt(double(nodeVisits))), at least 1: the children select
\* wants to see before it descends
Allowed(visitCount) == Max(1, ISqrt((324 * Max(1, visitCount)) \div 100))

\* a plausible slip: the moves that already are children are not skipped
RECURSIVE PickUnexpanded_NotSkipping(_, _, _, _, _, _, _, _)
PickUnexpanded_NotSkipping(t, n, p, bd, legals, k, bestM, bestP) ==
    IF k > Len(legals) THEN [move |-> bestM, prior |-> bestP]
    ELSE LET m == legals[k]
             pr == CalculateMovePrior(p, bd, m)
         IN  IF pr > bestP
             THEN PickUnexpanded_NotSkipping(t, n, p, bd, legals, k + 1, m, pr)
             ELSE PickUnexpanded_NotSkipping(t, n, p, bd, legals, k + 1, bestM, bestP)

\* the loop of expandWithPrior over the legal moves from the k-th on: the
\* move not yet a child of n with the highest prior, the first such on ties
RECURSIVE PickUnexpanded(_, _, _, _, _, _, _, _)
PickUnexpanded(t, n, p, bd, legals, k, bestM, bestP) ==
    IF k > Len(legals) THEN [move |-> bestM, prior |-> bestP]
    ELSE LET m == legals[k]
             found == \E j \in 1 .. Len(t[n].children) : t[t[n].children[j]].move = m
             pr == CalculateMovePrior(p, bd, m)
         IN  IF ~found /\ pr > bestP
             THEN PickUnexpanded(t, n, p, bd, legals, k + 1, m, pr)
             ELSE PickUnexpanded(t, n, p, bd, legals, k + 1, bestM, bestP)

\* a plausible slip: the replies of the new child are counted before its
\* move is pushed
ExpandWithPrior_CountsBeforePush(t, n, p, sb) ==
    IF t[n].isTerminal THEN [tree |-> t, node |-> n, sb |-> sb]
    ELSE LET legals == LegalMoves(p, sb.board)
         IN  IF Len(legals) = 0
             THEN [tree |-> [t EXCEPT ![n].isTerminal = TRUE], node |-> n, sb |-> sb]
             ELSE LET best == PickUnexpanded(t, n, p, sb.board, legals, 1, NoMove, -ONE)
                  IN  IF best.move # NoMove
                      THEN LET t1 == AddChild(t, n, best.move, best.prior)
                               child == Len(t1)
                               terminal == Len(LegalMoves(p, sb.board)) = 0
                           IN  [tree |-> [t1 EXCEPT ![child].isTerminal = terminal],
                                node |-> child, sb |-> Pop(Push(sb, best.move))]
                      ELSE [tree |-> t, node |-> n, sb |-> sb]

\* a plausible slip: the new child is made and the selected node is returned
ExpandWithPrior_ReturnsSelected(t, n, p, sb) ==
    IF t[n].isTerminal THEN [tree |-> t, node |-> n, sb |-> sb]
    ELSE LET legals == LegalMoves(p, sb.board)
         IN  IF Len(legals) = 0
             THEN [tree |-> [t EXCEPT ![n].isTerminal = TRUE], node |-> n, sb |-> sb]
             ELSE LET best == PickUnexpanded(t, n, p, sb.board, legals, 1, NoMove, -ONE)
                  IN  IF best.move # NoMove
                      THEN LET t1 == AddChild(t, n, best.move, best.prior)
                               child == Len(t1)
                               sb1 == Push(sb, best.move)
                               terminal == Len(LegalMoves(p, sb1.board)) = 0
                           IN  [tree |-> [t1 EXCEPT ![child].isTerminal = terminal],
                                node |-> n, sb |-> Pop(sb1)]
                      ELSE [tree |-> t, node |-> n, sb |-> sb]

\* MCTSTree::expandWithPrior on node n with the board and stack sb: the tree,
\* the node returned, the board and stack afterwards
ExpandWithPrior(t, n, p, sb) ==
    IF t[n].isTerminal THEN [tree |-> t, node |-> n, sb |-> sb]
    ELSE LET legals == LegalMoves(p, sb.board)
         IN  IF Len(legals) = 0
             THEN [tree |-> [t EXCEPT ![n].isTerminal = TRUE], node |-> n, sb |-> sb]
             ELSE LET best == PickUnexpanded(t, n, p, sb.board, legals, 1, NoMove, -ONE)
                  IN  IF best.move # NoMove
                      THEN LET t1 == AddChild(t, n, best.move, best.prior)
                               child == Len(t1)
                               sb1 == Push(sb, best.move)
                               terminal == Len(LegalMoves(p, sb1.board)) = 0
                           IN  [tree |-> [t1 EXCEPT ![child].isTerminal = terminal],
                                node |-> child, sb |-> Pop(sb1)]
                      ELSE [tree |-> t, node |-> n, sb |-> sb]

\* MCTSTree::evaluateNNUE, in thousandths
EvaluateNNUE(nw, p, bd, rootSide) ==
    LET s == Sigmoid(Evaluate(nw, p, bd))
    IN  IF SideToMove(p, bd) = rootSide THEN s ELSE ONE - s

\* MCTSTree::simulateNNUE: the side handed over as the root side is the side
\* to move on the board as it stands
SimulateNNUE(nw, p, bd) == EvaluateNNUE(nw, p, bd, SideToMove(p, bd))

\* a plausible slip: the walk stops below the root (while node->parent)
RECURSIVE Backpropagate_StopsBelowRoot(_, _, _)
Backpropagate_StopsBelowRoot(t, n, s) ==
    IF n = NullNode \/ t[n].parent = NullNode THEN t
    ELSE Backpropagate_StopsBelowRoot(
             [t EXCEPT ![n].visits = @ + 1, ![n].totalScore = @ + s], t[n].parent, ONE - s)

\* a plausible slip: the score is not inverted on the way up
RECURSIVE Backpropagate_NoFlip(_, _, _)
Backpropagate_NoFlip(t, n, s) ==
    IF n = NullNode THEN t
    ELSE Backpropagate_NoFlip(
             [t EXCEPT ![n].visits = @ + 1, ![n].totalScore = @ + s], t[n].parent, s)

\* a plausible slip: the score is negated on the way up (-score for
\* 1.0 - score)
RECURSIVE Backpropagate_Negates(_, _, _)
Backpropagate_Negates(t, n, s) ==
    IF n = NullNode THEN t
    ELSE Backpropagate_Negates(
             [t EXCEPT ![n].visits = @ + 1, ![n].totalScore = @ + s], t[n].parent, -s)

\* MCTSTree::backpropagate from node n with score s.  One thread runs it: the
\* compare-exchange loop succeeds at once and adds s.
RECURSIVE Backpropagate(_, _, _)
Backpropagate(t, n, s) ==
    IF n = NullNode THEN t
    ELSE Backpropagate([t EXCEPT ![n].visits = @ + 1, ![n].totalScore = @ + s],
                       t[n].parent, ONE - s)

\* a plausible slip: the bonus of the much-visited child is left out
Robust_NoBonus(t, c, maxIt) ==
    LET v == t[c].visits
    IN  t[c].totalScore \div v + ISqrt(225 * v)

\* 0.15 * (sqrt(v) / 10) and the bonus of a child with more than a fifth of
\* the iterations, on top of its mean
Robust(t, c, maxIt) ==
    LET v == t[c].visits
    IN  t[c].totalScore \div v + ISqrt(225 * v) + (IF v > maxIt \div 5 THEN 50 ELSE 0)

\* the loop of getBestMove over the root's children from the k-th on
RECURSIVE BestRootChildFrom(_, _, _, _, _)
BestRootChildFrom(t, maxIt, k, best, bestS) ==
    IF k > Len(t[Root].children) THEN best
    ELSE LET c == t[Root].children[k]
         IN  IF t[c].visits # 0 /\ (best = NullNode \/ Robust(t, c, maxIt) > bestS)
             THEN BestRootChildFrom(t, maxIt, k + 1, c, Robust(t, c, maxIt))
             ELSE BestRootChildFrom(t, maxIt, k + 1, best, bestS)

\* a plausible slip: a child counts as visited only after a second visit
GetBestMove_SkipsOneVisit(t, maxIt) ==
    LET seen == \E k \in 1 .. Len(t[Root].children) : t[t[Root].children[k]].visits > 1
        best == IF seen THEN BestRootChildFrom(t, maxIt, 1, NullNode, 0) ELSE NullNode
    IN  [move       |-> IF best # NullNode THEN t[best].move ELSE NoMove,
         winRate    |-> IF best # NullNode THEN t[best].totalScore \div t[best].visits ELSE 500,
         visits     |-> IF best # NullNode THEN t[best].visits ELSE 0,
         rootVisits |-> t[Root].visits]

\* MCTSTree::getBestMove: the move returned and what the out pointers receive
GetBestMove(t, maxIt) ==
    LET best == IF Len(t[Root].children) = 0 THEN NullNode
                ELSE BestRootChildFrom(t, maxIt, 1, NullNode, 0)
    IN  [move       |-> IF best # NullNode THEN t[best].move ELSE NoMove,
         winRate    |-> IF best # NullNode THEN t[best].totalScore \div t[best].visits ELSE 500,
         visits     |-> IF best # NullNode THEN t[best].visits ELSE 0,
         rootVisits |-> t[Root].visits]

\* the entries collectRootStats pushes, in the order of the root's children
RECURSIVE RootStatEntries(_, _)
RootStatEntries(t, k) ==
    IF k > Len(t[Root].children) THEN << >>
    ELSE LET c == t[Root].children[k]
             rest == RootStatEntries(t, k + 1)
         IN  IF t[c].visits <= 0 THEN rest
             ELSE << [move |-> t[c].move, visits |-> t[c].visits,
                      winRate |-> t[c].totalScore \div t[c].visits] >> \o rest

\* a plausible slip: the entries are left in the order of the children
CollectRootStats_Unsorted(t) == {RootStatEntries(t, 1)}

\* MCTSTree::collectRootStats: std::sort is not stable, so every order of the
\* entries by non-increasing visits is an outcome
CollectRootStats(t) ==
    LET e == RootStatEntries(t, 1)
        n == Len(e)
        perms == {f \in [1 .. n -> 1 .. n] : \A a, b \in 1 .. n : a # b => f[a] # f[b]}
    IN  {[k \in 1 .. n |-> e[f[k]]] :
            f \in {g \in perms : \A a, b \in 1 .. n : a < b => e[g[a]].visits >= e[g[b]].visits}}

(***************************************************************************)
(* ShashinManager: the helpers.                                            *)
(***************************************************************************)
\* the detectors, on the positions of PositionTable
DetectKingExposed(p, sideToMove) ==
    IF sideToMove THEN PositionTable[p].stmExp ELSE PositionTable[p].oppExp
DetectSacrificial(p) == PositionTable[p].sac
DetectKingDanger(p) == PositionTable[p].danger
DetectPawnsNearPromotion(p) == PositionTable[p].promo
PieceCount(p) == PositionTable[p].pieces

\* ShashinManager::isFortress
IsFortress(p) == PositionTable[p].fortress

\* RootShashinState as constructed: every member at its default
InitialState ==
    [staticState |->
        [stmKingExposed |-> FALSE, opponentKingExposed |-> FALSE, isSacrificial |-> FALSE,
         kingDanger |-> FALSE, highMaterial |-> FALSE, pawnsNearPromotion |-> FALSE,
         allPiecesCount |-> 0, legalMoveCount |-> 0],
     dynamicDerived |->
        [isStrategical |-> FALSE, isAggressive |-> FALSE, isTactical |-> FALSE,
         isTacticalReactive |-> FALSE, isHighTal |-> FALSE, isComplex |-> FALSE,
         isMCTSApplicable |-> FALSE]]

\* the struct config of ShashinManager as constructed
InitialConfig ==
    [useMCTS |-> FALSE, mctsIterations |-> DefaultIterations,
     mctsExploration |-> DefaultExploration]

\* a plausible slip: fourteen legal moves are enough for the gate (>= for >)
UpdateDynamicState_FourteenCounts(st, p) ==
    LET s == st.staticState
        strategical == ~s.stmKingExposed /\ ~s.opponentKingExposed /\ ~s.isSacrificial
                       /\ ~s.kingDanger
        aggressive == s.stmKingExposed \/ s.opponentKingExposed \/ s.kingDanger
                      \/ s.isSacrificial
        tactical == s.kingDanger \/ s.isSacrificial \/ s.pawnsNearPromotion
        highTal == s.stmKingExposed /\ s.opponentKingExposed /\ s.kingDanger
    IN  [st EXCEPT !.dynamicDerived =
            [@ EXCEPT !.isStrategical = strategical,
                      !.isAggressive = aggressive,
                      !.isTactical = tactical,
                      !.isHighTal = highTal,
                      !.isComplex = PieceCount(p) > 14 /\ ~strategical /\ ~aggressive,
                      !.isMCTSApplicable = (highTal \/ (aggressive /\ tactical))
                                           /\ s.legalMoveCount >= 14]]

\* a plausible slip: isStrategical is derived from the isAggressive of the
\* call before (read before it is assigned)
UpdateDynamicState_StaleAggressive(st, p) ==
    LET s == st.staticState
        strategical == ~st.dynamicDerived.isAggressive
        aggressive == s.stmKingExposed \/ s.opponentKingExposed \/ s.kingDanger
                      \/ s.isSacrificial
        tactical == s.kingDanger \/ s.isSacrificial \/ s.pawnsNearPromotion
        highTal == s.stmKingExposed /\ s.opponentKingExposed /\ s.kingDanger
    IN  [st EXCEPT !.dynamicDerived =
            [@ EXCEPT !.isStrategical = strategical,
                      !.isAggressive = aggressive,
                      !.isTactical = tactical,
                      !.isHighTal = highTal,
                      !.isComplex = PieceCount(p) > 14 /\ ~strategical /\ ~aggressive,
                      !.isMCTSApplicable = (highTal \/ (aggressive /\ tactical))
                                           /\ s.legalMoveCount > 14]]

\* a plausible slip: a sacrifice does not make the position aggressive
UpdateDynamicState_SacrificeNotAggressive(st, p) ==
    LET s == st.staticState
        strategical == ~s.stmKingExposed /\ ~s.opponentKingExposed /\ ~s.isSacrificial
                       /\ ~s.kingDanger
        aggressive == s.stmKingExposed \/ s.opponentKingExposed \/ s.kingDanger
        tactical == s.kingDanger \/ s.isSacrificial \/ s.pawnsNearPromotion
        highTal == s.stmKingExposed /\ s.opponentKingExposed /\ s.kingDanger
    IN  [st EXCEPT !.dynamicDerived =
            [@ EXCEPT !.isStrategical = strategical,
                      !.isAggressive = aggressive,
                      !.isTactical = tactical,
                      !.isHighTal = highTal,
                      !.isComplex = PieceCount(p) > 14 /\ ~strategical /\ ~aggressive,
                      !.isMCTSApplicable = (highTal \/ (aggressive /\ tactical))
                                           /\ s.legalMoveCount > 14]]

\* ShashinManager::updateDynamicState: the state st with dynamicDerived derived
\* again from its staticState and the piece count of p
UpdateDynamicState(st, p) ==
    LET s == st.staticState
        strategical == ~s.stmKingExposed /\ ~s.opponentKingExposed /\ ~s.isSacrificial
                       /\ ~s.kingDanger
        aggressive == s.stmKingExposed \/ s.opponentKingExposed \/ s.kingDanger
                      \/ s.isSacrificial
        tactical == s.kingDanger \/ s.isSacrificial \/ s.pawnsNearPromotion
        highTal == s.stmKingExposed /\ s.opponentKingExposed /\ s.kingDanger
    IN  [st EXCEPT !.dynamicDerived =
            [@ EXCEPT !.isStrategical = strategical,
                      !.isAggressive = aggressive,
                      !.isTactical = tactical,
                      !.isHighTal = highTal,
                      !.isComplex = PieceCount(p) > 14 /\ ~strategical /\ ~aggressive,
                      !.isMCTSApplicable = (highTal \/ (aggressive /\ tactical))
                                           /\ s.legalMoveCount > 14]]

\* a plausible slip: the rule of TAL is tried before the rule of HIGH_TAL
ClassifyPosition_TalFirst(st, p) ==
    LET d == st.dynamicDerived
    IN  IF d.isAggressive /\ ~d.isStrategical THEN "TAL"
        ELSE IF d.isHighTal THEN "HIGH_TAL"
        ELSE IF d.isStrategical /\ d.isAggressive THEN "CAPABLANCA"
        ELSE IF d.isStrategical /\ ~d.isAggressive THEN "PETROSIAN"
        ELSE IF IsFortress(p) THEN "HIGH_PETROSIAN"
        ELSE "UNKNOWN_STYLE"

\* a plausible slip: the fortress detector is asked before the rule of
\* PETROSIAN
ClassifyPosition_FortressFirst(st, p) ==
    LET d == st.dynamicDerived
    IN  IF d.isHighTal THEN "HIGH_TAL"
        ELSE IF d.isAggressive /\ ~d.isStrategical THEN "TAL"
        ELSE IF d.isStrategical /\ d.isAggressive THEN "CAPABLANCA"
        ELSE IF IsFortress(p) THEN "HIGH_PETROSIAN"
        ELSE IF d.isStrategical /\ ~d.isAggressive THEN "PETROSIAN"
        ELSE "UNKNOWN_STYLE"

\* ShashinManager::classifyPosition in manager state st
ClassifyPosition(st, p) ==
    LET d == st.dynamicDerived
    IN  IF d.isHighTal THEN "HIGH_TAL"
        ELSE IF d.isAggressive /\ ~d.isStrategical THEN "TAL"
        ELSE IF d.isStrategical /\ d.isAggressive THEN "CAPABLANCA"
        ELSE IF d.isStrategical /\ ~d.isAggressive THEN "PETROSIAN"
        ELSE IF IsFortress(p) THEN "HIGH_PETROSIAN"
        ELSE "UNKNOWN_STYLE"

\* a plausible slip: the gate is not consulted
IsMCTSApplicableByValue_Always(st) == TRUE

\* ShashinManager::isMCTSApplicableByValue
IsMCTSApplicableByValue(st) == st.dynamicDerived.isMCTSApplicable

\* ShashinManager::isCapablanca and ShashinManager::isComplexPosition
IsCapablanca(st) == st.dynamicDerived.isStrategical /\ st.dynamicDerived.isAggressive
IsComplexPosition(st) == st.dynamicDerived.isComplex

\* ShashinManager::isMCTSExplorationApplicable
IsMCTSExplorationApplicable(st) ==
    IsComplexPosition(st) \/ (st.staticState.highMaterial /\ IsCapablanca(st))

\* the static part of setStaticState: the signals of p written to staticState
StaticOf(st, p) ==
    [st EXCEPT !.staticState =
        [stmKingExposed      |-> DetectKingExposed(p, TRUE),
         opponentKingExposed |-> DetectKingExposed(p, FALSE),
         isSacrificial       |-> DetectSacrificial(p),
         kingDanger          |-> DetectKingDanger(p),
         pawnsNearPromotion  |-> DetectPawnsNearPromotion(p),
         allPiecesCount      |-> IF PieceCount(p) > 18 THEN 1 ELSE 0,
         legalMoveCount      |-> Len(LegalMoves(p, << >>)) % 256,
         highMaterial        |-> PieceCount(p) > 18]]

\* std::clamp(iterations, 1, 300)
ClampIterations(iterations) == Min(Max(iterations, 1), MaxClamp)

(***************************************************************************)
(* Initial state: a manager as constructed, no call in progress.          *)
(***************************************************************************)
\* what the caller's out variables hold before a call writes them
Unwritten ==
    [move |-> NoMove, winRate |-> -1, visits |-> -1, rootVisits |-> -1, stats |-> << >>,
     written |-> FALSE]

NoStatic == [pos |-> 0, count |-> 0]

NoRun == [trees |-> << >>, move |-> NoMove, done |-> FALSE, seed |-> 0]

\* no call in progress on a manager as constructed
NoCall ==
    /\ state = InitialState
    /\ currentStyle = "UNKNOWN_STYLE"
    /\ config = InitialConfig
    /\ lastStatic = NoStatic
    /\ pc = "idle"
    /\ caller = "none"
    /\ rootPos = 0
    /\ board = << >>
    /\ nets = 0
    /\ maxIterations = 0
    /\ explorationConstant = 0
    /\ style = "UNKNOWN_STYLE"
    /\ rng = 0
    /\ it = 0
    /\ stack = << >>
    /\ node = NullNode
    /\ score = 0
    /\ result = Unwritten
    /\ runNo = 0
    /\ firstRun = NoRun
    /\ nodesCreated = 0
    /\ bpLeaf = << >>
    /\ bpInner = << >>

Init ==
    /\ NoCall
    /\ tree = << >>
    /\ workers = << >>
    /\ probe = << >>

(***************************************************************************)
(* MCTSTree::search, step by step.                                         *)
(***************************************************************************)
\* a plausible slip: search does not test the root for legal moves
RootHasNoMoves_NotTested(p) == FALSE

\* the test at the head of search: MoveList<LEGAL>(rootPos).size() == 0
RootHasNoMoves(p) == Len(LegalMoves(p, << >>)) = 0

\* MCTSTree::MCTSTree followed by the head of MCTSTree::search on the position
\* p: the root node is made, then the legal moves of the root are counted.
\* run is the number of this run on the position.
ConstructAndBegin(p, nw, iterations, exploration, st, seed, run) ==
    LET root == << NewNode(NoMove, NullNode, ONE) >>
        none == RootHasNoMoves(p)
    IN  /\ rootPos' = p
        /\ board' = << >>
        /\ nets' = nw
        /\ maxIterations' = iterations
        /\ explorationConstant' = StyleExploration(st, exploration)
        /\ style' = st
        /\ rng' = seed
        /\ tree' = root
        /\ nodesCreated' = 1
        /\ bpLeaf' = << 0 >>
        /\ bpInner' = << 0 >>
        /\ it' = 0
        /\ stack' = << >>
        /\ node' = NullNode
        /\ score' = 0
        /\ result' = Unwritten
        /\ pc' = IF none THEN "done" ELSE "loop"
        /\ runNo' = run
        /\ firstRun' = IF run # 1 THEN firstRun
                       ELSE [trees |-> IF none THEN << >> ELSE << root >>,
                             move |-> NoMove, done |-> none, seed |-> seed]

\* a caller constructs a tree for a style and calls search on a position
TreeSearch(p, nw, iterations, st, seed) ==
    /\ pc = "idle"
    /\ caller' = "tree"
    /\ ConstructAndBegin(p, nw, iterations, DefaultExploration, st, seed, 1)
    /\ UNCHANGED << workers, probe, managerVars >>

\* the caller constructs a new tree with the same arguments and calls search
\* on the same position again
SearchAgain(seed) ==
    /\ pc = "done"
    /\ caller = "tree"
    /\ runNo < MaxRuns
    /\ ConstructAndBegin(rootPos, nets, maxIterations, DefaultExploration, style, seed,
                         runNo + 1)
    /\ UNCHANGED << workers, probe, managerVars, caller >>

\* a plausible slip: the loop is left once an iteration has ended on a
\* terminal node
LoopIsOver_AtTerminal ==
    \/ it >= maxIterations
    \/ node # NullNode /\ tree[node].isTerminal

\* the condition of the loop of search fails: i < maxIterations is false
LoopIsOver == it >= maxIterations

\* select replays the path of the node it is given (the root: no move)
RECURSIVE ReplayPath(_, _)
ReplayPath(sb, path) ==
    IF path = << >> THEN sb ELSE ReplayPath(Push(sb, Head(path)), Tail(path))

\* the head of the loop of search with iterations left: a fresh MCTSStack,
\* and select begins at the root
IterationStart ==
    /\ pc = "loop"
    /\ ~LoopIsOver
    /\ LET sb == ReplayPath([stack |-> << >>, board |-> board], GetPathFromRoot(tree, Root))
       IN  /\ stack' = sb.stack
           /\ board' = sb.board
    /\ node' = Root
    /\ pc' = "select"
    /\ UNCHANGED << workers, probe, managerVars, treeVars, caller, rootPos, nets, it, score, result, histVars >>

\* a plausible slip: select descends without the widening test
SelectGoesOn_NoWidening(t, n, p, bd) ==
    /\ ~t[n].isTerminal
    /\ Len(t[n].children) # 0
    /\ Len(LegalMoves(p, bd)) # 0

\* a plausible slip: select also descends from a node all of whose legal
\* moves are children, whatever its visits allow
SelectGoesOn_WhenFullyExpanded(t, n, p, bd) ==
    /\ ~t[n].isTerminal
    /\ Len(t[n].children) # 0
    /\ Len(LegalMoves(p, bd)) # 0
    /\ \/ Len(t[n].children) >= Allowed(t[n].visits)
       \/ IsFullyExpanded(t, n, Len(LegalMoves(p, bd)))

\* the loop of select goes on from node n: n is not terminal, has children,
\* the position has legal moves and n has the children its visits allow
SelectGoesOn(t, n, p, bd) ==
    /\ ~t[n].isTerminal
    /\ Len(t[n].children) # 0
    /\ Len(LegalMoves(p, bd)) # 0
    /\ Len(t[n].children) >= Allowed(t[n].visits)

\* the loop of select ends on the node it stands on
SelectStop ==
    /\ pc = "select"
    /\ ~SelectGoesOn(tree, node, rootPos, board)
    /\ tree' = IF ~tree[node].isTerminal /\ Len(tree[node].children) # 0
                  /\ Len(LegalMoves(rootPos, board)) = 0
               THEN [tree EXCEPT ![node].isTerminal = TRUE]
               ELSE tree
    /\ pc' = "expand"
    /\ UNCHANGED << workers, probe, managerVars, maxIterations, explorationConstant, style, rng, caller,
                    rootPos, board, nets, it, stack, node, score, result, histVars >>

\* one round of the loop of select that moves to the best child
SelectDescend ==
    /\ pc = "select"
    /\ SelectGoesOn(tree, node, rootPos, board)
    /\ LET child == BestChild(tree, node, explorationConstant)
       IN  IF child # NullNode /\ tree[child].move # NoMove
           THEN LET sb == Push([stack |-> stack, board |-> board], tree[child].move)
                IN  /\ node' = child
                    /\ stack' = sb.stack
                    /\ board' = sb.board
                    /\ pc' = "select"
           ELSE /\ node' = child
                /\ pc' = "expand"
                /\ UNCHANGED << stack, board >>
    /\ UNCHANGED << workers, probe, managerVars, treeVars, caller, rootPos, nets, it, score, result, histVars >>

\* expandWithPrior on the selected node
Expand ==
    /\ pc = "expand"
    /\ LET r == ExpandWithPrior(tree, node, rootPos, [stack |-> stack, board |-> board])
           made == Len(r.tree) - Len(tree)
       IN  /\ tree' = r.tree
           /\ node' = r.node
           /\ stack' = r.sb.stack
           /\ board' = r.sb.board
           /\ nodesCreated' = nodesCreated + made
           /\ bpLeaf' = IF made = 1 THEN Append(bpLeaf, 0) ELSE bpLeaf
           /\ bpInner' = IF made = 1 THEN Append(bpInner, 0) ELSE bpInner
    /\ pc' = "simulate"
    /\ UNCHANGED << workers, probe, managerVars, maxIterations, explorationConstant, style, rng, caller,
                    rootPos, nets, it, score, result, runNo, firstRun >>

\* simulateNNUE on the board as expandWithPrior left it
Simulate ==
    /\ pc = "simulate"
    /\ score' = SimulateNNUE(nets, rootPos, board)
    /\ pc' = "backprop"
    /\ UNCHANGED << workers, probe, managerVars, treeVars, caller, rootPos, board, nets, it, stack, node,
                    result, histVars >>

\* backpropagate from the expanded node
BackpropagateScore ==
    /\ pc = "backprop"
    /\ tree' = Backpropagate(tree, node, score)
    /\ bpLeaf' = IF Len(tree[node].children) = 0 THEN [bpLeaf EXCEPT ![node] = @ + 1]
                 ELSE bpLeaf
    /\ bpInner' = IF Len(tree[node].children) # 0 THEN [bpInner EXCEPT ![node] = @ + 1]
                  ELSE bpInner
    /\ pc' = "clear"
    /\ UNCHANGED << workers, probe, managerVars, maxIterations, explorationConstant, style, rng, caller,
                    rootPos, board, nets, it, stack, node, score, result, runNo, firstRun,
                    nodesCreated >>

\* stack.clear(rootPos) and the increment of the loop
StackClear ==
    /\ pc = "clear"
    /\ LET sb == Clear([stack |-> stack, board |-> board])
       IN  /\ stack' = sb.stack
           /\ board' = sb.board
    /\ it' = it + 1
    /\ pc' = "loop"
    /\ firstRun' = IF runNo = 1 THEN [firstRun EXCEPT !.trees = Append(@, tree)] ELSE firstRun
    /\ UNCHANGED << workers, probe, managerVars, treeVars, caller, rootPos, nets, node, score, result,
                    runNo, nodesCreated, bpLeaf, bpInner >>

\* the loop is over: collectRootStats, then getBestMove
SearchFinish ==
    /\ pc = "loop"
    /\ LoopIsOver
    /\ \E stats \in CollectRootStats(tree) :
          LET best == GetBestMove(tree, maxIterations)
          IN  /\ result' = [move |-> best.move, winRate |-> best.winRate,
                            visits |-> best.visits, rootVisits |-> best.rootVisits,
                            stats |-> stats, written |-> TRUE]
              /\ firstRun' = IF runNo = 1
                             THEN [firstRun EXCEPT !.move = best.move, !.done = TRUE]
                             ELSE firstRun
    /\ pc' = "done"
    /\ UNCHANGED << workers, probe, managerVars, treeVars, caller, rootPos, board, nets, it, stack, node,
                    score, runNo, nodesCreated, bpLeaf, bpInner >>

\* the call returns to its caller: the tree and the locals of search are gone
Return ==
    /\ pc = "done"
    /\ pc' = "idle"
    /\ caller' = "none"
    /\ rootPos' = 0
    /\ board' = << >>
    /\ nets' = 0
    /\ tree' = << >>
    /\ maxIterations' = 0
    /\ explorationConstant' = 0
    /\ style' = "UNKNOWN_STYLE"
    /\ rng' = 0
    /\ it' = 0
    /\ stack' = << >>
    /\ node' = NullNode
    /\ score' = 0
    /\ result' = Unwritten
    /\ runNo' = 0
    /\ firstRun' = NoRun
    /\ nodesCreated' = 0
    /\ bpLeaf' = << >>
    /\ bpInner' = << >>
    /\ UNCHANGED << workers, probe, managerVars >>

(***************************************************************************)
(* ShashinManager: the operations.                                         *)
(***************************************************************************)
\* ShashinManager::setStaticState
SetStaticState(p) ==
    /\ pc = "idle"
    /\ LET st == UpdateDynamicState(StaticOf(state, p), p)
       IN  /\ state' = st
           /\ currentStyle' = ClassifyPosition(st, p)
    /\ lastStatic' = [pos |-> p,
                      count |-> IF lastStatic.pos = p THEN Min(lastStatic.count + 1, 2) ELSE 1]
    /\ UNCHANGED << config, treeVars, callVars, histVars, workers, probe >>

\* ShashinManager::updateRootShashinState
UpdateRootShashinState(p) ==
    /\ pc = "idle"
    /\ state' = UpdateDynamicState(state, p)
    /\ lastStatic' = NoStatic
    /\ UNCHANGED << currentStyle, config, treeVars, callVars, histVars, workers, probe >>

\* ShashinManager::updateCurrentStyle
UpdateCurrentStyle(p) ==
    /\ pc = "idle"
    /\ currentStyle' = ClassifyPosition(state, p)
    /\ lastStatic' = NoStatic
    /\ UNCHANGED << state, config, treeVars, callVars, histVars, workers, probe >>

\* ShashinManager::syncMCTSOptions
SyncMCTSOptions(enabled, iterations) ==
    /\ pc = "idle"
    /\ config' = [config EXCEPT !.useMCTS = enabled, !.mctsIterations = Max(1, iterations)]
    /\ UNCHANGED << state, currentStyle, lastStatic, treeVars, callVars, histVars, workers, probe >>

\* ShashinManager::runMCTSSearch
RunMCTSSearch(p, nw, iterations, seed) ==
    /\ pc = "idle"
    /\ caller' = "manager"
    /\ IF ~config.useMCTS \/ ~IsMCTSApplicableByValue(state)
       THEN /\ pc' = "done"
            /\ rootPos' = p
            /\ nets' = nw
            /\ runNo' = 1
            /\ UNCHANGED << treeVars, board, it, stack, node, score, result, firstRun,
                            nodesCreated, bpLeaf, bpInner >>
       ELSE ConstructAndBegin(p, nw, ClampIterations(iterations), config.mctsExploration,
                              currentStyle, seed, 1)
    /\ UNCHANGED << workers, probe, managerVars >>

(***************************************************************************)
(* Specifications.                                                         *)
(***************************************************************************)
Iterations == 0 .. MaxIter
\* the evaluator networks a search may be handed
Networks == {0, 1}
\* the scores workers may hold when they enter backpropagate
WorkerScores == {269, 500}
\* the seeds std::random_device may give the generator of a tree
Seeds == {0, 1}

\* the steps of a search under way, whoever called it
SearchStep ==
    \/ IterationStart
    \/ SelectStop
    \/ SelectDescend
    \/ Expand
    \/ Simulate
    \/ BackpropagateScore
    \/ StackClear
    \/ SearchFinish
    \/ Return

\* the tree on its own: every position, budget, style, network and seed
Next ==
    \/ \E p \in Positions, nw \in Networks, n \in Iterations, st \in Styles, seed \in Seeds :
          TreeSearch(p, nw, n, st, seed)
    \/ \E seed \in Seeds : SearchAgain(seed)
    \/ SearchStep

Spec == Init /\ [][Next]_vars

\* the manager and the searches it runs
NextManager ==
    \/ \E p \in Positions : SetStaticState(p)
    \/ \E p \in Positions : UpdateRootShashinState(p)
    \/ \E p \in Positions : UpdateCurrentStyle(p)
    \/ \E enabled \in BOOLEAN, n \in {0, MaxIter} : SyncMCTSOptions(enabled, n)
    \/ \E p \in Positions, nw \in Networks, n \in {0, MaxIter}, seed \in Seeds :
          RunMCTSSearch(p, nw, n, seed)
    \/ SearchStep

SpecManager == Init /\ [][NextManager]_vars

\* the positions with few legal moves, on which the budget goes deep; the
\* styles tried on them are those of the greatest and the least exploration
NarrowPositions == {p \in Positions : PositionTable[p].legal <= 3}

\* searches that are run to their end: search is sequential code, so a step
\* of it that can be taken is taken
NextLive ==
    \/ \E p \in NarrowPositions, nw \in Networks, n \in Iterations,
           st \in {"HIGH_TAL", "HIGH_PETROSIAN"} :
          TreeSearch(p, nw, n, st, 0)
    \/ SearchStep

SpecLive == Init /\ [][NextLive]_vars /\ WF_vars(SearchStep)

(***************************************************************************)
(* MCTSTree::backpropagate run by several workers on one tree: every atomic *)
(* operation of MCTSNode is a step of its own.                              *)
(***************************************************************************)
\* a tree to back up through: the root, two children of it and a child of
\* the first child, none visited yet
SharedTree ==
    LET t1 == << NewNode(NoMove, NullNode, ONE) >>
        t2 == AddChild(t1, Root, 1, 500)
        t3 == AddChild(t2, Root, 2, 500)
    IN  AddChild(t3, 2, DeepMoveA, 500)

Workers == 1 .. NumWorkers

\* what the workers do not touch
notShared ==
    << managerVars, callVars, histVars, maxIterations, explorationConstant, style, rng,
       probe >>

\* a worker at the head of backpropagate(node, score)
WorkerAt(n, s) ==
    [pc |-> "fetch_add", start |-> n, first |-> s, node |-> n, score |-> s, expected |-> 0]

InitConcurrent ==
    /\ NoCall
    /\ tree = SharedTree
    /\ workers \in [Workers -> {WorkerAt(n, s) : n \in 1 .. Len(SharedTree), s \in WorkerScores}]
    /\ probe = << >>

\* node->visits.fetch_add(1, std::memory_order_relaxed)
FetchAdd(w) ==
    /\ workers[w].pc = "fetch_add"
    /\ tree' = [tree EXCEPT ![workers[w].node].visits = @ + 1]
    /\ workers' = [workers EXCEPT ![w].pc = "load"]
    /\ UNCHANGED notShared

\* expected = node->totalScore.load(std::memory_order_relaxed): a relaxed
\* load may give the latest value or an older one (here: the first)
LoadTotalScore(w) ==
    /\ workers[w].pc = "load"
    /\ \E seen \in {tree[workers[w].node].totalScore, SharedTree[workers[w].node].totalScore} :
          workers' = [workers EXCEPT ![w].expected = seen, ![w].pc = "cas"]
    /\ UNCHANGED << tree, notShared >>

\* a plausible slip: a plain store for the compare-and-swap
CasSucceeds_Always(current, expected) == TRUE

\* compare_exchange_weak succeeds only on the value the worker expects
CasSucceeds(current, expected) == current = expected

\* compare_exchange_weak stores desired = expected + score; then
\* score = 1.0 - score and node = node->parent
CompareExchangeStores(w) ==
    LET n == workers[w].node
    IN  /\ workers[w].pc = "cas"
        /\ CasSucceeds(tree[n].totalScore, workers[w].expected)
        /\ tree' = [tree EXCEPT ![n].totalScore = workers[w].expected + workers[w].score]
        /\ workers' = [workers EXCEPT
                          ![w].score = ONE - @,
                          ![w].node = tree[n].parent,
                          ![w].pc = IF tree[n].parent = NullNode THEN "done" ELSE "fetch_add"]
        /\ UNCHANGED notShared

\* compare_exchange_weak fails, on another value or spuriously: expected
\* receives the value found and the loop goes round
CompareExchangeFails(w) ==
    /\ workers[w].pc = "cas"
    /\ workers' = [workers EXCEPT ![w].expected = tree[workers[w].node].totalScore]
    /\ UNCHANGED << tree, notShared >>

NextConcurrent ==
    \/ \E w \in Workers : FetchAdd(w)
    \/ \E w \in Workers : LoadTotalScore(w)
    \/ \E w \in Workers : CompareExchangeStores(w)
    \/ \E w \in Workers : CompareExchangeFails(w)

SpecConcurrent == InitConcurrent /\ [][NextConcurrent]_vars

(***************************************************************************)
(* Functions called on their own, on every argument of a bounded set.       *)
(***************************************************************************)
\* what the variables other than probe hold meanwhile
noCallVars == << managerVars, treeVars, callVars, histVars, workers >>

\* what calculateMovePrior may read of a move: whether it is a capture, the
\* piece type on the target square (0: NO_PIECE), the moved piece type,
\* whether it gives check, whether it is a promotion
MoveAttrs ==
    [capture : BOOLEAN, captured : 0 .. MaxPieceType - 1, mover : 1 .. MaxPieceType,
     check : BOOLEAN, promo : BOOLEAN]

InitPrior ==
    /\ NoCall
    /\ tree = << >>
    /\ workers = << >>
    /\ probe \in {[fn |-> "calculateMovePrior", arg |-> a, returned |-> FALSE, out |-> 0] :
                      a \in MoveAttrs}

\* calculateMovePrior is called on the move and returns
CallCalculateMovePrior ==
    /\ probe # << >>
    /\ probe.fn = "calculateMovePrior"
    /\ ~probe.returned
    /\ probe' = [probe EXCEPT !.returned = TRUE, !.out = PriorOf(probe.arg)]
    /\ UNCHANGED noCallVars

SpecPrior == InitPrior /\ [][CallCalculateMovePrior]_vars

\* the derived booleans classifyPosition reads, in every combination, with a
\* position for the fortress detector
DerivedStates ==
    {[InitialState EXCEPT !.dynamicDerived.isHighTal = h,
                          !.dynamicDerived.isAggressive = a,
                          !.dynamicDerived.isStrategical = g] : h, a, g \in BOOLEAN}

InitClassify ==
    /\ NoCall
    /\ tree = << >>
    /\ workers = << >>
    /\ probe \in {[fn |-> "classifyPosition", arg |-> [st |-> st, pos |-> p],
                   returned |-> FALSE, out |-> "UNKNOWN_STYLE"] :
                      st \in DerivedStates, p \in Positions}

\* classifyPosition is called on the state and the position and returns
CallClassifyPosition ==
    /\ probe # << >>
    /\ probe.fn = "classifyPosition"
    /\ ~probe.returned
    /\ probe' = [probe EXCEPT !.returned = TRUE,
                              !.out = ClassifyPosition(probe.arg.st, probe.arg.pos)]
    /\ UNCHANGED noCallVars

SpecClassify == InitClassify /\ [][CallClassifyPosition]_vars

\* The board of the detectors: the squares 0 .. 63 (a1 = 0, h8 = 63), a
\* bitboard is the set of the squares whose bits are set.
Squares == 0 .. 63
FileOf(sq) == sq % 8
RankOf(sq) == sq \div 8
FileBB(f) == {sq \in Squares : FileOf(sq) = f}

\* shift<D>(b) of the engine: every square of the bitboard moved one step; the
\* squares that would leave the board are dropped
Shift(D, b) ==
    CASE D = "NORTH"      -> {sq + 8 : sq \in {x \in b : x + 8 <= 63}}
      [] D = "SOUTH"      -> {sq - 8 : sq \in {x \in b : x >= 8}}
      [] D = "NORTH_WEST" -> {sq + 7 : sq \in {x \in b : FileOf(x) # 0 /\ x + 7 <= 63}}
      [] D = "NORTH_EAST" -> {sq + 9 : sq \in {x \in b : FileOf(x) # 7 /\ x + 9 <= 63}}
      [] D = "SOUTH_WEST" -> {sq - 9 : sq \in {x \in b : FileOf(x) # 0 /\ x >= 9}}
      [] D = "SOUTH_EAST" -> {sq - 7 : sq \in {x \in b : FileOf(x) # 7 /\ x >= 8}}

\* detectKingExposed hands shift<D> the Square k where a Bitboard is declared.
\* What the engine makes of it: the bitboard of that one square, or the
\* bitboard whose bits are the number of the square.
Readings == {"square", "number"}
AsBitboard(k, reading) ==
    IF reading = "square" THEN {k}
    ELSE {i \in 0 .. 5 : (k \div (2 ^ i)) % 2 = 1}

\* ShashinManager::detectKingExposed for the king of side on square k, with
\* the pawns of that side (own) and the pawns of both sides (all)
DetectKingExposedOn(side, k, own, all, reading) ==
    LET kb == AsBitboard(k, reading)
        p == IF side = "WHITE"
             THEN IF RankOf(k) >= 1 /\ RankOf(k) <= 3
                  THEN own \cap (Shift("SOUTH", kb) \cup Shift("SOUTH_WEST", kb)
                                 \cup Shift("SOUTH_EAST", kb))
                  ELSE {}
             ELSE IF RankOf(k) >= 4 /\ RankOf(k) <= 6
                  THEN own \cap (Shift("NORTH", kb) \cup Shift("NORTH_WEST", kb)
                                 \cup Shift("NORTH_EAST", kb))
                  ELSE {}
    IN  IF p = {} THEN TRUE
        ELSE LET f == FileOf(k)
                 m == FileBB(f) \cup (IF f > 0 THEN FileBB(f - 1) ELSE {})
                                \cup (IF f < 7 THEN FileBB(f + 1) ELSE {})
             IN  (all \cap m) = {}

\* the squares a pawn may stand on
PawnSquares == {sq \in Squares : RankOf(sq) >= 1 /\ RankOf(sq) <= 6}

\* the pawns of the other colour on a board: none, or one on the king's file
OtherPawns(b) ==
    IF b.otherOnFile
    THEN {FileOf(b.king) + 8 * (IF RankOf(b.king) = 3 THEN 4 ELSE 3)}
    ELSE {}

\* the boards detectKingExposed is tried on: a king of either colour on any
\* square, with no pawn of its colour or one, and with or without a pawn of
\* the other colour on the king's file
KingBoards ==
    {b \in [side : {"WHITE", "BLACK"}, king : Squares,
            own : {{}} \cup {{sq} : sq \in PawnSquares}, otherOnFile : BOOLEAN,
            reading : Readings] :
        /\ b.king \notin b.own
        /\ b.own \cap OtherPawns(b) = {}}

InitKing ==
    /\ NoCall
    /\ tree = << >>
    /\ workers = << >>
    /\ probe \in {[fn |-> "detectKingExposed", arg |-> b, returned |-> FALSE, out |-> FALSE] :
                      b \in KingBoards}

\* detectKingExposed is called on the board and returns
CallDetectKingExposed ==
    /\ probe # << >>
    /\ probe.fn = "detectKingExposed"
    /\ ~probe.returned
    /\ probe' = [probe EXCEPT
                    !.returned = TRUE,
                    !.out = DetectKingExposedOn(probe.arg.side, probe.arg.king, probe.arg.own,
                                                probe.arg.own \cup OtherPawns(probe.arg),
                                                probe.arg.reading)]
    /\ UNCHANGED noCallVars

SpecKing == InitKing /\ [][CallDetectKingExposed]_vars

(***************************************************************************)
(* The stack of one iteration on a node of any depth: select replays the   *)
(* path of the node it is given, expandWithPrior pushes and pops the move  *)
(* of the new child, search clears the stack.                              *)
(***************************************************************************)
\* the moves from the root to the node at depth d of a line of the tree
LinePath(d) == [k \in 1 .. d |-> (k % 3) + 1]

\* a caller holds a node without children at depth d and a fresh MCTSStack
InitStack ==
    /\ NoCall
    /\ tree = << >>
    /\ workers = << >>
    /\ probe \in {[fn |-> "select", depth |-> d, replayed |-> 0, stack |-> << >>,
                   board |-> << >>, selected |-> << >>, checked |-> << >>,
                   popped |-> FALSE] : d \in 0 .. MAX_PLY}

\* one round of the loop of select over the path of the node: the next move
\* of the path is pushed
SelectPush ==
    /\ probe # << >>
    /\ probe.fn = "select"
    /\ probe.replayed < probe.depth
    /\ LET sb == Push([stack |-> probe.stack, board |-> probe.board],
                      LinePath(probe.depth)[probe.replayed + 1])
       IN  probe' = [probe EXCEPT !.replayed = @ + 1, !.stack = sb.stack, !.board = sb.board]
    /\ UNCHANGED noCallVars

\* the path is replayed; the node has no child, so the second loop of select
\* does not run and select returns the node
SelectReturn ==
    /\ probe # << >>
    /\ probe.fn = "select"
    /\ probe.replayed = probe.depth
    /\ probe' = [probe EXCEPT !.fn = "expandWithPrior", !.selected = probe.board]
    /\ UNCHANGED noCallVars

\* expandWithPrior on the node: the move of the new child is pushed, the
\* replies are counted on the board (checked), the move is popped
ExpandPushPop ==
    /\ probe # << >>
    /\ probe.fn = "expandWithPrior"
    /\ LET sb1 == Push([stack |-> probe.stack, board |-> probe.board], 1)
           sb2 == Pop(sb1)
       IN  probe' = [probe EXCEPT !.fn = "clear", !.stack = sb2.stack, !.board = sb2.board,
                                  !.checked = sb1.board, !.popped = TRUE]
    /\ UNCHANGED noCallVars

\* one round of the loop of MCTSStack::clear at the end of the iteration
ClearPop ==
    /\ probe # << >>
    /\ probe.fn = "clear"
    /\ Len(probe.stack) > 0
    /\ LET sb == Pop([stack |-> probe.stack, board |-> probe.board])
       IN  probe' = [probe EXCEPT !.stack = sb.stack, !.board = sb.board, !.popped = FALSE]
    /\ UNCHANGED noCallVars

\* the loop of clear ends: depth is 0
ClearReturn ==
    /\ probe # << >>
    /\ probe.fn = "clear"
    /\ Len(probe.stack) = 0
    /\ probe' = [probe EXCEPT !.fn = "cleared"]
    /\ UNCHANGED noCallVars

NextStack ==
    \/ SelectPush
    \/ SelectReturn
    \/ ExpandPushPop
    \/ ClearPop
    \/ ClearReturn

SpecStack == InitStack /\ [][NextStack]_vars

(***************************************************************************)
(* Properties.                                                             *)
(***************************************************************************)
Nodes == 1 .. Len(tree)

SearchCalled == tree # << >>

RootLegal == LegalMoves(rootPos, << >>)

IsRootLegal(m) == \E k \in 1 .. Len(RootLegal) : RootLegal[k] = m

\* the nodes from n up to the root
RECURSIVE PathNodes(_, _)
PathNodes(t, n) == IF n = NullNode THEN {} ELSE {n} \cup PathNodes(t, t[n].parent)

RECURSIVE SumChildVisits(_, _, _)
SumChildVisits(t, n, k) ==
    IF k > Len(t[n].children) THEN 0
    ELSE t[t[n].children[k]].visits + SumChildVisits(t, n, k + 1)

\* C1: for a root position with at least one legal move and a budget of at
\* least one iteration, the move search returns is a legal move of the root
\* position: never "no move", never a move that is legal only deeper.
C1_ReturnsLegalRootMove ==
    (pc = "done" /\ SearchCalled /\ Len(RootLegal) >= 1 /\ maxIterations >= 1)
        => (result.move # NoMove /\ IsRootLegal(result.move))

\* C1 witness: a finished search whose tree holds a move that is legal only
\* below the root, and which returned a legal root move
C1_Witness ==
    /\ pc = "done" /\ SearchCalled /\ maxIterations >= 1
    /\ \E n \in Nodes : tree[n].move \in {DeepMoveA, DeepMoveB}
    /\ IsRootLegal(result.move)

\* C2 as claimed: with no legal move at the root, search returns "no move",
\* has run no iteration and has created no node at all.
C2_NoLegalMoveNoNode ==
    (pc = "done" /\ SearchCalled /\ Len(RootLegal) = 0)
        => (result.move = NoMove /\ it = 0 /\ nodesCreated = 0)

\* C2 amended: with no legal move at the root, search returns "no move"
\* having run no iteration; the only node it created is the root, which has
\* no child and no visit, and nothing is written through the out pointers.
C2_NoLegalMoveRootOnly ==
    (pc = "done" /\ SearchCalled /\ Len(RootLegal) = 0)
        => /\ result.move = NoMove
           /\ ~result.written
           /\ it = 0
           /\ nodesCreated = 1
           /\ Len(tree) = 1
           /\ Len(tree[Root].children) = 0
           /\ tree[Root].visits = 0

\* C2 witness: search was called with a budget on a root without legal moves
\* and has returned
C2_Witness ==
    pc = "done" /\ SearchCalled /\ Len(RootLegal) = 0 /\ maxIterations >= 1 /\ it = 0

\* C3: at the head of every iteration and when search returns, the board is
\* the root position again: every move made was undone, the stack is empty.
C3_BoardIsRootAtBoundaries ==
    (SearchCalled /\ pc \in {"loop", "done"}) => (board = << >> /\ Len(stack) = 0)

\* C3 witness: a search has returned with the board restored after iterations
\* that made moves on it down to depth two
C3_Witness ==
    /\ pc = "done" /\ SearchCalled /\ board = << >>
    /\ \E n \in Nodes : Depth(tree, n) >= 2

\* C4: after k completed iterations, for every k up to the budget, the root's
\* visit count is k: within an iteration it is k until backpropagate has run.
C4_RootVisitsCountIterations ==
    SearchCalled =>
        /\ it <= Max(maxIterations, 0)
        /\ tree[Root].visits = IF pc = "clear" THEN it + 1 ELSE it

\* C4 witness: several iterations are complete, some backpropagated from the
\* root itself and some from a node two plies down
C4_Witness ==
    /\ pc = "loop" /\ it >= 4 /\ tree[Root].visits = it
    /\ bpInner[Root] >= 1
    /\ \E n \in Nodes : Depth(tree, n) >= 2 /\ bpLeaf[n] >= 1

\* the conservation of visits at node n
Conserved(n) == tree[n].visits = SumChildVisits(tree, n, 1) + bpLeaf[n] + bpInner[n]

\* C5 as claimed: at every iteration boundary every non-root node has as many
\* visits as its children together plus the backpropagations begun at the
\* node itself, and a backpropagation begins at a node only while the node
\* has no child yet.
C5_ConservationLeafOnly ==
    (SearchCalled /\ pc \in {"loop", "done"})
        => \A n \in Nodes \ {Root} : Conserved(n) /\ bpInner[n] = 0

\* every legal move of the position of node n is a child of n
AllMovesExpanded(n) ==
    LET legals == LegalMoves(rootPos, GetPathFromRoot(tree, n))
    IN  \A k \in 1 .. Len(legals) :
            \E j \in 1 .. Len(tree[n].children) : tree[tree[n].children[j]].move = legals[k]

\* C5 amended: at every iteration boundary every non-root node has as many
\* visits as its children together plus the backpropagations begun at the
\* node itself; a backpropagation begins at a node that has children only
\* when every legal move of the node is a child already and the node has
\* fewer children than its visits allow (expansion added nothing).
C5_Conservation ==
    /\ (SearchCalled /\ pc \in {"loop", "done"}) => \A n \in Nodes \ {Root} : Conserved(n)
    /\ (pc = "backprop" /\ node # Root /\ Len(tree[node].children) # 0)
           => /\ AllMovesExpanded(node)
              /\ Len(tree[node].children) < Allowed(tree[node].visits)
              /\ ~tree[node].isTerminal

\* C5 witness: a non-root node with children was the start of a
\* backpropagation, and visits are conserved at it
C5_Witness ==
    /\ pc = "loop"
    /\ \E n \in Nodes \ {Root} :
          bpInner[n] >= 1 /\ bpLeaf[n] >= 1 /\ Len(tree[n].children) # 0 /\ Conserved(n)

\* what backpropagate of score s from node n must do to the tree t, giving u
BackpropEffect(t, u, n, s) ==
    /\ Len(u) = Len(t)
    /\ \A k \in 1 .. Len(t) :
          IF k \in PathNodes(t, n)
          THEN u[k] = [t[k] EXCEPT
                          !.visits = @ + 1,
                          !.totalScore = @ + (IF (Depth(t, n) - Depth(t, k)) % 2 = 0
                                              THEN s ELSE ONE - s)]
          ELSE u[k] = t[k]

\* C6: backpropagating score s from a node at depth d adds s to that node,
\* 1 - s to its parent and so on in alternation, so the root receives s when d
\* is even and 1 - s when d is odd; every node on the path, and no other,
\* gets one more visit.
C6_BackpropAlternates ==
    [][pc = "backprop" => BackpropEffect(tree, tree', node, score)]_vars

\* C6 witness: backpropagate has run from a node two or more plies down with
\* a score that differs from its complement
C6_Witness ==
    pc = "clear" /\ Depth(tree, node) >= 2 /\ score # ONE - score

\* max(1, ceil(1.8 * sqrt(v)))
CeilAllowed(v) == Max(1, CHOOSE r \in 0 .. 2 * (v + 1) : 100 * r * r >= 324 * v
                                   /\ (r = 0 \/ 100 * (r - 1) * (r - 1) < 324 * v))

\* a round of select that moves from the node to one of its children
Descent == pc = "select" /\ pc' = "select" /\ node' # node

\* C7 as claimed: whenever select descends from a node into a child, the node
\* has at least max(1, ceil(1.8 * sqrt(visitCount))) children.
C7_WideningCeil ==
    [][Descent => Len(tree[node].children) >= CeilAllowed(tree[node].visits)]_vars

\* max(1, floor(1.8 * sqrt(max(1, v))))
FloorAllowed(v) ==
    LET w == Max(1, v)
    IN  Max(1, CHOOSE r \in 0 .. 2 * w : 100 * r * r <= 324 * w
                                         /\ 100 * (r + 1) * (r + 1) > 324 * w)

\* C7 amended: whenever select descends from a node into a child, the node
\* has at least max(1, floor(1.8 * sqrt(max(1, visitCount)))) children.
C7_WideningFloor ==
    [][Descent => Len(tree[node].children) >= FloorAllowed(tree[node].visits)]_vars

\* C7 witness: select has descended into a child whose parent has fewer
\* children than the rounded-up bound
C7_Witness ==
    /\ pc = "select" /\ node # Root
    /\ LET par == tree[node].parent
       IN  /\ Len(tree[par].children) >= FloorAllowed(tree[par].visits)
           /\ Len(tree[par].children) < CeilAllowed(tree[par].visits)

\* C8: a second run of search with the same budget, style, position and
\* evaluator builds the same tree iteration by iteration as the first and
\* returns the same move with the same visits of the root's children,
\* whatever seeds the two generators got.
C8_Deterministic ==
    (SearchCalled /\ runNo >= 2) =>
        /\ pc = "loop" => (it + 1 <= Len(firstRun.trees) /\ tree = firstRun.trees[it + 1])
        /\ pc = "done" => /\ firstRun.done
                          /\ result.move = firstRun.move
                          /\ (Len(RootLegal) # 0 =>
                                 tree = firstRun.trees[Len(firstRun.trees)])

\* C8 witness: a second run with a seed other than the first run's has
\* returned after several iterations
C8_Witness ==
    /\ pc = "done" /\ SearchCalled /\ runNo = 2 /\ rng # firstRun.seed /\ it >= 4
    /\ Len(tree) >= 4

\* runMCTSSearch has been called and has not returned to its caller yet
ManagerCall == caller = "manager" /\ pc # "idle"

\* runMCTSSearch declined: no tree, no iteration, nothing written, board untouched
Declined ==
    /\ pc = "done"
    /\ result.move = NoMove
    /\ ~result.written
    /\ it = 0
    /\ nodesCreated = 0
    /\ board = << >>

\* C9 as claimed: runMCTSSearch builds and runs the tree exactly when
\* mctsApplicable is true, whatever else holds; when it is false it returns
\* "no move" without an iteration and without touching the board.
C9_GateIsSoleAuthorization ==
    ManagerCall =>
        /\ SearchCalled <=> state.dynamicDerived.isMCTSApplicable
        /\ ~SearchCalled => Declined

\* C9 amended: runMCTSSearch builds and runs the tree exactly when the option
\* config.useMCTS is on and mctsApplicable is true, whatever the style; when
\* either is false it returns "no move" without an iteration and without
\* touching the board.
C9_GateAndOption ==
    ManagerCall =>
        /\ SearchCalled <=> (config.useMCTS /\ state.dynamicDerived.isMCTSApplicable)
        /\ ~SearchCalled => Declined

\* C9 witness: runMCTSSearch ran a search to its end with the option on and
\* the gate true
C9_Witness ==
    /\ ManagerCall /\ pc = "done" /\ SearchCalled
    /\ config.useMCTS /\ state.dynamicDerived.isMCTSApplicable
    /\ it = maxIterations /\ it >= 1 /\ result.written

\* the state of a manager whose setStaticState was last called on p
ClassifiedOn(p) == UpdateDynamicState(StaticOf(InitialState, p), p)

\* C10: once a manager has classified some position, the style
\* classifyPosition(pos) returns and the gate runMCTSSearch(pos) consults are
\* those of pos itself, whichever position setStaticState was last called on.
C10_ClassificationDependsOnPositionOnly ==
    /\ state # InitialState =>
          \A p \in Positions :
              ClassifyPosition(state, p) = ClassifyPosition(ClassifiedOn(p), p)
    /\ (ManagerCall /\ state # InitialState) =>
          state.dynamicDerived.isMCTSApplicable
              = ClassifiedOn(rootPos).dynamicDerived.isMCTSApplicable

\* C11: a call of setStaticState that follows a call of setStaticState on the
\* same position leaves the static signals, the derived booleans and the
\* style as the first call left them, whatever the state before the first.
C11_SetStaticStateIdempotent ==
    [][\A p \in Positions :
          (SetStaticState(p) /\ lastStatic.pos = p)
              => (state' = state /\ currentStyle' = currentStyle)]_vars

\* C11 witness: setStaticState was called twice in a row on a position whose
\* signals are not those of a manager as constructed, and which it classifies
\* HIGH_TAL
C11_Witness ==
    /\ lastStatic.count = 2
    /\ state # InitialState
    /\ currentStyle = "HIGH_TAL"

\* the manager's state is as setStaticState(lastStatic.pos) left it
JustClassified == lastStatic.count >= 1

\* both kings of p are flagged exposed, the king of the side to move is in
\* danger and p has more than 14 legal moves
HighTalPosition(p) ==
    /\ DetectKingExposed(p, TRUE)
    /\ DetectKingExposed(p, FALSE)
    /\ DetectKingDanger(p)
    /\ Len(LegalMoves(p, << >>)) > 14

\* C12: after setStaticState on a position with both kings exposed, king
\* danger and more than 14 legal moves, highTal and mctsApplicable are true
\* and the style is HIGH_TAL; the tree runMCTSSearch then builds has style
\* HIGH_TAL and an exploration constant strictly above that of every other
\* style of the table (TAL > CAPABLANCA > PETROSIAN > HIGH_PETROSIAN below it).
C12_HighTalScenario ==
    (JustClassified /\ HighTalPosition(lastStatic.pos)) =>
        /\ state.dynamicDerived.isHighTal
        /\ state.dynamicDerived.isMCTSApplicable
        /\ currentStyle = "HIGH_TAL"
        /\ (ManagerCall /\ SearchCalled) =>
              /\ style = "HIGH_TAL"
              /\ \A st \in {"TAL", "CAPABLANCA", "PETROSIAN", "HIGH_PETROSIAN"} :
                    explorationConstant > StyleExploration(st, config.mctsExploration)
              /\ StyleExploration("TAL", 0) > StyleExploration("CAPABLANCA", 0)
              /\ StyleExploration("CAPABLANCA", 0) > StyleExploration("PETROSIAN", 0)
              /\ StyleExploration("PETROSIAN", 0) > StyleExploration("HIGH_PETROSIAN", 0)

\* C12 witness: runMCTSSearch runs a tree after setStaticState on such a
\* position
C12_Witness ==
    /\ JustClassified /\ HighTalPosition(lastStatic.pos)
    /\ ManagerCall /\ SearchCalled /\ it >= 1

\* C13: after setStaticState, mctsApplicable is true exactly when (highTal or
\* (aggressive and tactical)) and the position has more than 14 legal moves;
\* it is false for every position with 14 legal moves or fewer, whatever its
\* signals.
C13_GateFormula ==
    JustClassified =>
        LET d == state.dynamicDerived
            legalMoveCount == Len(LegalMoves(lastStatic.pos, << >>))
        IN  /\ d.isMCTSApplicable
                <=> ((d.isHighTal \/ (d.isAggressive /\ d.isTactical)) /\ legalMoveCount > 14)
            /\ legalMoveCount <= 14 => ~d.isMCTSApplicable

\* C13 witness: setStaticState has classified a position with exactly 14
\* legal moves that is highTal, and the gate is false
C13_Witness ==
    /\ JustClassified
    /\ Len(LegalMoves(lastStatic.pos, << >>)) = 14
    /\ state.dynamicDerived.isHighTal
    /\ ~state.dynamicDerived.isMCTSApplicable

\* the k-th child of the root
RootChild(k) == tree[Root].children[k]

\* the root's children with at least one visit, by their place among the children
VisitedRootChildren == {k \in 1 .. Len(tree[Root].children) : tree[RootChild(k)].visits >= 1}

\* meanValue + 0.15 * sqrt(visits) / 10, plus 0.05 when visits > budget / 5,
\* in thousandths
RobustScore(k) ==
    LET v == tree[RootChild(k)].visits
    IN  tree[RootChild(k)].totalScore \div v
        + (CHOOSE r \in 0 .. 15 * v : r * r <= 225 * v /\ (r + 1) * (r + 1) > 225 * v)
        + (IF 5 * v > maxIterations THEN 50 ELSE 0)

\* r is what getBestMove has to return on the tree as it stands
IsBestMoveOfTree(r) ==
    IF VisitedRootChildren = {}
    THEN r.move = NoMove /\ r.visits = 0
    ELSE \E k \in VisitedRootChildren :
            /\ r.move = tree[RootChild(k)].move
            /\ r.visits = tree[RootChild(k)].visits
            /\ r.winRate = tree[RootChild(k)].totalScore \div tree[RootChild(k)].visits
            /\ \A j \in VisitedRootChildren :
                  /\ RobustScore(j) <= RobustScore(k)
                  /\ j < k => RobustScore(j) < RobustScore(k)

\* C14: getBestMove returns the move of the visited root child with the
\* greatest meanValue + 0.15 * sqrt(visits) / 10 (+ 0.05 when visits exceed a
\* fifth of the budget), the earliest such child on ties, never a child
\* without a visit, and reports the win rate and the visits of that child.
C14_BestMoveIsRobustMaximum ==
    /\ (SearchCalled /\ pc = "done" /\ result.written) => IsBestMoveOfTree(result)
    /\ (SearchCalled /\ pc = "loop") => IsBestMoveOfTree(GetBestMove(tree, maxIterations))

\* C14 witness: search has returned the move of a child that is neither the
\* first nor the most visited of the root's visited children
C14_Witness ==
    /\ SearchCalled /\ pc = "done" /\ result.written
    /\ \E k, j \in VisitedRootChildren :
          /\ k > 1
          /\ result.move = tree[RootChild(k)].move
          /\ tree[RootChild(j)].visits > tree[RootChild(k)].visits

\* C15: the root statistics search hands back hold exactly one entry for each
\* root child with a visit, with the child's move, visits and mean, in order
\* of non-increasing visits; a move search returns is the move of an entry.
C15_RootStats ==
    (SearchCalled /\ pc = "done" /\ result.written) =>
        LET stats == result.stats
        IN  /\ Len(stats) = Cardinality(VisitedRootChildren)
            /\ \A k \in VisitedRootChildren :
                  \E i \in 1 .. Len(stats) :
                      stats[i] = [move    |-> tree[RootChild(k)].move,
                                  visits  |-> tree[RootChild(k)].visits,
                                  winRate |-> tree[RootChild(k)].totalScore
                                               \div tree[RootChild(k)].visits]
            /\ \A i, j \in 1 .. Len(stats) : i < j => stats[i].visits >= stats[j].visits
            /\ result.move # NoMove => \E i \in 1 .. Len(stats) : stats[i].move = result.move
            /\ result.move = NoMove => stats = << >>

\* C15 witness: search has handed back three entries or more whose order is
\* not the order in which the children were expanded
C15_Witness ==
    /\ SearchCalled /\ pc = "done" /\ result.written
    /\ Len(result.stats) >= 3
    /\ result.stats[1].visits > result.stats[Len(result.stats)].visits
    /\ \E a, b \in VisitedRootChildren :
          a < b /\ tree[RootChild(a)].visits < tree[RootChild(b)].visits

\* what worker w has to add to the totalScore of node n: its first score or
\* the complement, by the distance of n from the node it started at
Contribution(w, n) ==
    IF n \notin PathNodes(SharedTree, workers[w].start) THEN 0
    ELSE IF (Depth(SharedTree, workers[w].start) - Depth(SharedTree, n)) % 2 = 0
         THEN workers[w].first
         ELSE ONE - workers[w].first

RECURSIVE SumContributions(_, _)
SumContributions(w, n) ==
    IF w = 0 THEN 0 ELSE Contribution(w, n) + SumContributions(w - 1, n)

AllWorkersDone == workers # << >> /\ \A w \in Workers : workers[w].pc = "done"

\* C16: when workers that ran backpropagate at the same time have all
\* finished, whatever the interleaving, every node has one visit for each
\* backpropagation that passed through it and a totalScore that is the sum of
\* the scores they added: no update is lost.
C16_NoLostUpdate ==
    AllWorkersDone =>
        \A n \in 1 .. Len(SharedTree) :
            /\ tree[n].visits
                 = Cardinality({w \in Workers : n \in PathNodes(SharedTree, workers[w].start)})
            /\ tree[n].totalScore = SumContributions(NumWorkers, n)

\* C16 witness: two workers that started at different nodes below the same
\* child of the root have both finished
C16_Witness ==
    /\ AllWorkersDone
    /\ \E v, w \in Workers : workers[v].start = 2 /\ workers[w].start = 4

\* C17: a search that has entered its loop ends, and ends with all the
\* iterations of its budget run; it never ends with fewer, whatever nodes
\* (terminal, or with every legal move expanded) its iterations ended on.
C17_RunsFullBudget ==
    /\ [](SearchCalled /\ pc = "done" /\ Len(RootLegal) # 0 => it = maxIterations)
    /\ (SearchCalled /\ pc = "loop")
           ~> (pc = "done" /\ it = maxIterations /\ tree[Root].visits = maxIterations)

\* C17 witness: a search has ended after its full budget, with iterations
\* that ended on a terminal node and on a node whose legal moves were all
\* expanded already
C17_Witness ==
    /\ SearchCalled /\ pc = "done" /\ it = maxIterations /\ it >= 4
    /\ \E n \in Nodes : tree[n].isTerminal /\ bpLeaf[n] >= 1
    /\ \E n \in Nodes : bpInner[n] >= 1 /\ AllMovesExpanded(n)

\* calculateMovePrior has returned
PriorReturned == probe # << >> /\ probe.fn = "calculateMovePrior" /\ probe.returned

\* C18: for every combination of capture, captured piece, moved piece, check
\* and promotion, calculateMovePrior returns more than 0 and at most 0.95,
\* and never less than its base 0.5; so does every non-root node hold a
\* priorScore in that range.
C18_PriorRange ==
    /\ PriorReturned => (0 < probe.out /\ probe.out <= 950 /\ probe.out >= 500)
    /\ \A n \in Nodes \ {Root} : 0 < tree[n].priorScore /\ tree[n].priorScore <= 950

\* C18 witness: calculateMovePrior has returned on a pawn that captures a
\* queen, promotes and gives check, where the bonuses together exceed the cap
C18_Witness ==
    /\ PriorReturned
    /\ probe.arg = [capture |-> TRUE, captured |-> 5, mover |-> 1, check |-> TRUE,
                    promo |-> TRUE]
    /\ probe.out = 950

\* b is what bestChild has to return on node n of the tree as it stands
IsBestChildOf(b, n) ==
    LET children == tree[n].children
        scores == [k \in 1 .. Len(children) |->
                     UctScore(tree, children[k], explorationConstant)]
    IN  /\ b = NullNode <=> Len(children) = 0
        /\ b # NullNode =>
              \E k \in 1 .. Len(children) :
                  /\ children[k] = b
                  /\ \A j \in 1 .. Len(children) :
                        /\ scores[j] <= scores[k]
                        /\ j < k => scores[j] < scores[k]

\* C19: on every node of every tree a search builds, bestChild returns none
\* exactly when the node has no child, and else the child of the greatest
\* selection score, the earliest inserted on ties: select stands on such a
\* child after each descent; and while select runs, the tree is still the one
\* the iteration began with, node for node.  (The trees looked at node by
\* node are those of a first run with a child just expanded and the one its
\* loop ends with; a later run builds the same trees.)
C19_BestChild ==
    /\ (runNo = 1 /\ (pc = "simulate" \/ (pc = "loop" /\ LoopIsOver))) =>
          \A n \in Nodes : IsBestChildOf(BestChild(tree, n, explorationConstant), n)
    /\ (pc = "select" /\ node # Root) =>
          node = BestChild(tree, tree[node].parent, explorationConstant)
    /\ (pc = "select" /\ runNo = 1) => tree = firstRun.trees[Len(firstRun.trees)]

\* C19 witness: select has descended into a child that bestChild chose among
\* three or more, not the first of them, with another child of equal score
C19_Witness ==
    /\ pc = "select" /\ node # Root
    /\ LET par == tree[node].parent
       IN  /\ Len(tree[par].children) >= 3
           /\ node # tree[par].children[1]
           /\ node = BestChild(tree, par, explorationConstant)
           /\ \E c \in Nodes \ {node} :
                 /\ tree[c].parent = par
                 /\ UctScore(tree, c, explorationConstant)
                      = UctScore(tree, node, explorationConstant)

\* C20: the score simulate hands to backpropagate is the win probability of
\* the side to move at the root: p = 1 / (1 + exp(-v / 400)) when the side to
\* move on the evaluated board is the root's, 1 - p when it is the other.
C20_ScoreIsRootSideProbability ==
    pc = "backprop" =>
        LET p == Sigmoid(Evaluate(nets, rootPos, board))
        IN  score = IF SideToMove(rootPos, board) = SideToMove(rootPos, << >>)
                    THEN p
                    ELSE ONE - p


\* C21: in every iteration, when the static evaluator is called the board
\* holds the position of the node expansion returned: the root position with
\* exactly the moves on the path from the root to that node applied, also when
\* expansion has just created that node.
C21_EvaluatesExpandedNode ==
    pc = "simulate" => board = GetPathFromRoot(tree, node)

\* the stack operations of an iteration have reached the given step
StackAt(step) == probe # << >> /\ probe.fn = step

\* C22: apply and undo are symmetric on every path: the push and pop around
\* the terminal check of the new child put the child's move on the board and
\* leave the board at the selected node's position, whatever the length of
\* the path, the paths that fill the stack up to MAX_PLY - 1 included; and
\* once the stack is cleared the board is the root position again.
C22_ApplyUndoSymmetric ==
    /\ (StackAt("clear") /\ probe.popped) =>
          /\ probe.checked = Append(probe.selected, 1)
          /\ probe.board = probe.selected
    /\ StackAt("cleared") => (probe.board = << >> /\ probe.stack = << >>)

\* the tree at the head of the iteration under way (first run)
TreeAtLoopHead == firstRun.trees[Len(firstRun.trees)]

\* expandWithPrior has made a node in the iteration under way
ChildMade == Len(tree) = Len(TreeAtLoopHead) + 1

\* the node expandWithPrior was called on, seen when it has returned
SelectedNode == IF ChildMade THEN tree[Len(tree)].parent ELSE node

\* the moves of the children node n had at the head of the iteration
ChildMovesBefore(n) ==
    {TreeAtLoopHead[TreeAtLoopHead[n].children[j]].move :
        j \in 1 .. Len(TreeAtLoopHead[n].children)}

\* the positions in the legal-move enumeration at node n of the moves that were
\* no child of n at the head of the iteration
UnexpandedAt(n) ==
    LET legals == LegalMoves(rootPos, GetPathFromRoot(tree, n))
    IN  {k \in 1 .. Len(legals) : legals[k] \notin ChildMovesBefore(n)}

\* C23: expandWithPrior on a non-terminal node with a legal move that is no
\* child yet adds exactly one child, for the legal move of the highest prior
\* among those that are no child yet, the first of them in enumeration order
\* on ties, and returns it; when every legal move is a child already (or the
\* node is terminal) it adds nothing and returns the node itself; the children
\* of a node always carry pairwise distinct moves.
C23_ExpandAddsBestUnexpanded ==
    /\ (pc = "simulate" /\ runNo = 1) =>
          LET sel == SelectedNode
              path == GetPathFromRoot(tree, sel)
              legals == LegalMoves(rootPos, path)
              open == UnexpandedAt(sel)
              pr(k) == CalculateMovePrior(rootPos, path, legals[k])
          IN  IF ~tree[sel].isTerminal /\ open # {}
              THEN /\ ChildMade
                   /\ node = Len(tree)
                   /\ tree[sel].children = Append(TreeAtLoopHead[sel].children, node)
                   /\ \A n \in 1 .. Len(TreeAtLoopHead) \ {sel} :
                         tree[n].children = TreeAtLoopHead[n].children
                   /\ \E k \in open :
                         /\ tree[node].move = legals[k]
                         /\ tree[node].priorScore = pr(k)
                         /\ \A j \in open : pr(j) <= pr(k)
                         /\ \A j \in open : j < k => pr(j) < pr(k)
              ELSE /\ ~ChildMade
                   /\ node = sel
                   /\ \A n \in Nodes : tree[n].children = TreeAtLoopHead[n].children
    /\ \A n \in Nodes : \A i, j \in 1 .. Len(tree[n].children) :
          i # j => tree[tree[n].children[i]].move # tree[tree[n].children[j]].move

\* C23 witness: expandWithPrior has added a child of a node that had children
\* already, where two legal moves that were no child yet shared the highest
\* prior and the earlier of them was taken
C23_Witness ==
    /\ pc = "simulate" /\ runNo = 1 /\ ChildMade
    /\ LET sel == SelectedNode
           path == GetPathFromRoot(tree, sel)
           legals == LegalMoves(rootPos, path)
       IN  /\ Len(TreeAtLoopHead[sel].children) >= 1
           /\ \E j, k \in UnexpandedAt(sel) :
                 /\ j < k
                 /\ tree[node].move = legals[j]
                 /\ CalculateMovePrior(rootPos, path, legals[k]) = tree[node].priorScore

\* a search is under way and this step stays within it
WithinSearch == pc \notin {"idle", "done"} /\ pc' \notin {"idle"} /\ tree # << >>

\* the position of node n has no legal moves
NoLegalMovesAt(n) == Len(LegalMoves(rootPos, GetPathFromRoot(tree, n))) = 0

C25_VisitsAndValueSum ==
    /\ [](/\ \A n \in Nodes :
               /\ 0 <= tree[n].totalScore
               /\ tree[n].totalScore <= ONE * tree[n].visits
               /\ tree[n].visits >= 1 =>
                     (tree[n].totalScore \div tree[n].visits) \in 0 .. ONE
          /\ pc = "backprop" => score \in 0 .. ONE)
    /\ [][WithinSearch =>
            /\ \A n \in Nodes : tree'[n].visits >= tree[n].visits
            /\ \A n \in 1 .. Len(tree') : n > Len(tree) => tree'[n].visits = 0]_vars

\* C25 witness: a node was backpropagated through several times, with scores
\* of both sides, and its valueSum lies strictly between 0 and its visitCount
C25_Witness ==
    /\ pc = "clear"
    /\ \E n \in Nodes \ {Root} :
          /\ tree[n].visits >= 3
          /\ tree[n].children # << >>
          /\ 0 < tree[n].totalScore
          /\ tree[n].totalScore < ONE * tree[n].visits

\* classifyPosition has returned
Classified == probe # << >> /\ probe.fn = "classifyPosition" /\ probe.returned

\* C26: classifyPosition maps the derived booleans to exactly one of the six
\* styles, the first match of: highTal -> HIGH_TAL, aggressive and not
\* strategical -> TAL, strategical and aggressive -> CAPABLANCA, strategical
\* and not aggressive -> PETROSIAN, fortress -> HIGH_PETROSIAN, otherwise
\* UNKNOWN_STYLE; highTal wins over every later rule, and the fortress
\* detector decides only when none of the four earlier rules matches.
C26_FirstMatchWins ==
    Classified =>
        LET d == probe.arg.st.dynamicDerived
            fortress == PositionTable[probe.arg.pos].fortress
            rules == << d.isHighTal,
                        d.isAggressive /\ ~d.isStrategical,
                        d.isStrategical /\ d.isAggressive,
                        d.isStrategical /\ ~d.isAggressive,
                        fortress,
                        TRUE >>
            styles == << "HIGH_TAL", "TAL", "CAPABLANCA", "PETROSIAN", "HIGH_PETROSIAN",
                         "UNKNOWN_STYLE" >>
            first == CHOOSE k \in 1 .. 6 : rules[k] /\ \A j \in 1 .. k - 1 : ~rules[j]
        IN  /\ probe.out = styles[first]
            /\ probe.out \in Styles
            /\ d.isHighTal => probe.out = "HIGH_TAL"
            /\ probe.out \in {"HIGH_PETROSIAN", "UNKNOWN_STYLE"}
                  <=> (~d.isHighTal /\ ~d.isAggressive /\ ~d.isStrategical)

\* C26 witness: classifyPosition has returned PETROSIAN on a state that is
\* strategical and not aggressive, on a position the fortress detector accepts
C26_Witness ==
    /\ Classified
    /\ probe.arg.st.dynamicDerived.isStrategical
    /\ ~probe.arg.st.dynamicDerived.isAggressive
    /\ ~probe.arg.st.dynamicDerived.isHighTal
    /\ PositionTable[probe.arg.pos].fortress
    /\ probe.out = "PETROSIAN"

\* detectKingExposed has returned
KingExposedReturned == probe # << >> /\ probe.fn = "detectKingExposed" /\ probe.returned

\* the king on square k stands on one of the three ranks detectKingExposed
\* looks for a shield on: the second to fourth rank of its side
OnShieldRanks(side, k) ==
    IF side = "WHITE" THEN RankOf(k) \in 1 .. 3 ELSE RankOf(k) \in 4 .. 6

\* the squares next to k, on its file or an adjacent file
AdjacentSquares(k) ==
    {sq \in Squares \ {k} :
        /\ FileOf(sq) - FileOf(k) \in -1 .. 1
        /\ RankOf(sq) - RankOf(k) \in -1 .. 1}

\* no pawn stands on the file of k or on a file next to it
FilesPawnless(k, all) == \A sq \in all : FileOf(sq) - FileOf(k) \notin -1 .. 1

\* C27: detectKingExposed(side) returns false for a king on one of its three
\* shield ranks with an own pawn adjacent to it on its file or an adjacent
\* file, and true for a king outside those ranks or whose file and adjacent
\* files hold no pawn at all, for both colours and every king square.
C27_KingExposed ==
    KingExposedReturned =>
        LET a == probe.arg
        IN  /\ (OnShieldRanks(a.side, a.king) /\ a.own \cap AdjacentSquares(a.king) # {})
                  => probe.out = FALSE
            /\ (~OnShieldRanks(a.side, a.king) \/ FilesPawnless(a.king, a.own \cup OtherPawns(a)))
                  => probe.out = TRUE

\* the step is an update of the manager state: setStaticState or
\* updateRootShashinState, each of which runs updateDynamicState
UpdatesState == \E p \in Positions : SetStaticState(p) \/ UpdateRootShashinState(p)

\* C28: in every manager state that setStaticState, updateDynamicState or
\* updateRootShashinState produced, isStrategical is the negation of
\* isAggressive; so classifyPosition never returns CAPABLANCA, returns only
\* HIGH_TAL, TAL or PETROSIAN once the state has been updated and only
\* HIGH_PETROSIAN or UNKNOWN_STYLE before, and isComplex and
\* isMCTSExplorationApplicable are always false.
C28_StrategicalNegatesAggressive ==
    /\ [][UpdatesState =>
            /\ state'.dynamicDerived.isStrategical = ~state'.dynamicDerived.isAggressive
            /\ state' # InitialState]_vars
    /\ [](/\ state # InitialState =>
               /\ state.dynamicDerived.isStrategical = ~state.dynamicDerived.isAggressive
               /\ \A p \in Positions :
                     ClassifyPosition(state, p) \in {"HIGH_TAL", "TAL", "PETROSIAN"}
          /\ state = InitialState =>
               \A p \in Positions :
                   ClassifyPosition(state, p) \in {"HIGH_PETROSIAN", "UNKNOWN_STYLE"}
          /\ \A p \in Positions : ClassifyPosition(state, p) # "CAPABLANCA"
          /\ currentStyle # "CAPABLANCA"
          /\ ~IsComplexPosition(state)
          /\ ~IsMCTSExplorationApplicable(state))

\* C28 witness: setStaticState has classified a position of more than 14
\* pieces and high material whose only signal is a sacrifice
C28_Witness ==
    /\ JustClassified
    /\ PieceCount(lastStatic.pos) > 14
    /\ state.staticState.highMaterial
    /\ state.staticState.isSacrificial
    /\ ~state.staticState.stmKingExposed /\ ~state.staticState.opponentKingExposed
    /\ ~state.staticState.kingDanger
    /\ state.dynamicDerived.isAggressive
    /\ currentStyle = "TAL"

\* node n is not terminal, its children cover all its legal moves and they
\* are fewer than its visits allow
Saturated(n) ==
    /\ ~tree[n].isTerminal
    /\ Len(LegalMoves(rootPos, GetPathFromRoot(tree, n))) # 0
    /\ AllMovesExpanded(n)
    /\ Len(tree[n].children) < FloorAllowed(tree[n].visits)

\* the nodes below node n
Descendants(n) == {d \in Nodes \ {n} : n \in PathNodes(tree, d)}

\* C29: once the children of a non-terminal node cover all its legal moves
\* while they are fewer than max(1, floor(1.8 * sqrt(max(1, visitCount)))),
\* every later iteration that reaches the node stops selection there, creates
\* no node and backpropagates from the node itself; the node stays so, no
\* later iteration descends below it, and the visit counts of its descendants
\* never change again.
C29_SaturatedNodeEndsDescent ==
    [][WithinSearch =>
         \A n \in Nodes :
             Saturated(n) =>
                 /\ n \in 1 .. Len(tree')
                 /\ tree'[n].children = tree[n].children
                 /\ ~tree'[n].isTerminal
                 /\ Len(tree'[n].children) < FloorAllowed(tree'[n].visits)
                 /\ \A d \in Descendants(n) : tree'[d] = tree[d]
                 /\ (pc = "select" /\ node = n) => (pc' = "expand" /\ node' = n)
                 /\ (pc = "expand" /\ node = n) =>
                        (pc' = "simulate" /\ node' = n /\ Len(tree') = Len(tree))
                 /\ (pc = "simulate" /\ node = n) => (pc' = "backprop" /\ node' = n)
                 /\ (pc = "backprop" /\ node = n) => tree'[n].visits = tree[n].visits + 1
                 /\ (pc = "select" /\ pc' = "select") => node' \notin Descendants(n)]_vars

\* C29 witness: an iteration has ended at a node below the root whose
\* children, visited before, cover all its legal moves, and has started its
\* backpropagation there without making a node
C29_Witness ==
    /\ pc = "clear"
    /\ node # Root
    /\ Saturated(node)
    /\ bpInner[node] >= 1
    /\ \A d \in Descendants(node) : tree[d].visits >= 1
    /\ Descendants(node) # {}

\* C30: at every iteration boundary of the search every non-root node has
\* visitCount >= 1 and the tree holds at most 1 + k nodes after k iterations;
\* so getBestMove and collectRootStats skip no child of the root for having
\* no visit: every child of the root has its entry in the root statistics.
C30_NoUnvisitedNode ==
    /\ (SearchCalled /\ pc \in {"loop", "done"} /\ tree # << >>) =>
          /\ \A n \in Nodes \ {Root} : tree[n].visits >= 1
          /\ Len(tree) <= 1 + it
    /\ (SearchCalled /\ pc = "done" /\ result.written) =>
          /\ Len(result.stats) = Len(tree[Root].children)
          /\ \A k \in 1 .. Len(tree[Root].children) :
                \E j \in 1 .. Len(result.stats) :
                    /\ result.stats[j].move = tree[RootChild(k)].move
                    /\ result.stats[j].visits = tree[RootChild(k)].visits
          /\ Len(tree[Root].children) # 0 => result.move # NoMove

\* C30 witness: a search has returned after iterations some of which made a
\* node and some of which did not, with several children of the root
C30_Witness ==
    /\ SearchCalled /\ pc = "done" /\ result.written
    /\ Len(tree[Root].children) >= 3
    /\ Len(tree) >= 5
    /\ Len(tree) < 1 + it
    /\ Len(result.stats) = Len(tree[Root].children)

====
